---- MODULE Spec2Model ----
(***************************************************************************)
(* Bulk CSV ingestion of the transparency data service: the six            *)
(* importar_*_dataframe routines (app/utils) and the tables they load, and  *)
(* the reporting engine ServidorAnalytics (app/models/insights.py) with the *)
(* endpoints that drive it (app/api/analytics.py).                         *)
(* A text cell is a sequence of one-character strings; NaN is the missing  *)
(* cell pandas yields for an empty CSV field.  A nullable column holds the *)
(* empty set (NULL) or a one-element set.                                  *)
(***************************************************************************)
EXTENDS Integers, Sequences, FiniteSets, TLC

VARIABLES db, imp, n_imports, analytics

vars == <<db, imp, n_imports, analytics>>

\* ---------------------------------------------------------------- bounds
\* Rows of one uploaded file, where requests repeat.
MaxRows == 3
\* Rows of the uploaded file of a single request.
MaxRowsLote == 5
\* Import requests of one behaviour.
MaxImports == 2
\* Records of one chunk: the loaders use 1000; the model scales it down so
\* that a file of a few rows spans several chunks.
chunk_size == 2

\* ------------------------------------------------------------- text cells
NaN == <<"NaN">>
NULL == {}

Digits == {"0", "1", "2", "3", "4", "5", "6", "7", "8", "9"}

\* Latin-1 characters for which str.isnumeric() is true and int() fails.
NumericNonDigits == {"SUP2", "HALF"}

Whitespace == {" "}

DigitVal(c) ==
    CASE c = "0" -> 0 [] c = "1" -> 1 [] c = "2" -> 2 [] c = "3" -> 3
      [] c = "4" -> 4 [] c = "5" -> 5 [] c = "6" -> 6 [] c = "7" -> 7
      [] c = "8" -> 8 [] c = "9" -> 9

UpperChar(c) ==
    CASE c = "a" -> "A" [] c = "b" -> "B" [] c = "c" -> "C" [] c = "d" -> "D"
      [] c = "e" -> "E" [] c = "m" -> "M" [] c = "n" -> "N" [] c = "o" -> "O"
      [] c = "s" -> "S" [] c = "t" -> "T" [] c = "i" -> "I" [] c = "f" -> "F"
      [] c = "r" -> "R" [] c = "x" -> "X" [] c = "u" -> "U"
      [] c = "c_cedilha" -> "C_CEDILHA" [] c = "a_til" -> "A_TIL"
      [] OTHER -> c

LowerChar(c) ==
    CASE c = "A" -> "a" [] c = "B" -> "b" [] c = "C" -> "c" [] c = "D" -> "d"
      [] c = "E" -> "e" [] c = "M" -> "m" [] c = "N" -> "n" [] c = "O" -> "o"
      [] c = "S" -> "s" [] c = "T" -> "t" [] c = "I" -> "i" [] c = "F" -> "f"
      [] c = "R" -> "r" [] c = "X" -> "x" [] c = "U" -> "u"
      [] c = "C_CEDILHA" -> "c_cedilha" [] c = "A_TIL" -> "a_til"
      [] OTHER -> c

Upper(s) == [i \in 1..Len(s) |-> UpperChar(s[i])]

Lower(s) == [i \in 1..Len(s) |-> LowerChar(s[i])]

Min(a, b) == IF a < b THEN a ELSE b

SetMin(S) == CHOOSE i \in S : \A j \in S : i <= j

SetMax(S) == CHOOSE i \in S : \A j \in S : i >= j

\* The positions of s that hold none of the characters of C.
Outside(s, C) == {i \in 1..Len(s) : s[i] \notin C}

Between(s, keep) ==
    IF keep = {} THEN <<>> ELSE SubSeq(s, SetMin(keep), SetMax(keep))

\* str.strip(): drops leading and trailing whitespace.
Strip(s) == Between(s, Outside(s, Whitespace))

\* str.isnumeric(): non-empty and every character numeric.
IsNumeric(s) ==
    /\ s # NaN
    /\ Len(s) > 0
    /\ \A i \in 1..Len(s) : s[i] \in Digits \cup NumericNonDigits

\* A non-empty string of the decimal digits int() accepts.
IsDecimal(s) == s # NaN /\ Len(s) > 0 /\ \A i \in 1..Len(s) : s[i] \in Digits

RECURSIVE ToInt(_)
ToInt(s) ==
    IF Len(s) = 0 THEN 0
    ELSE 10 * ToInt(SubSeq(s, 1, Len(s) - 1)) + DigitVal(s[Len(s)])

\* Series.fillna("")
FillNa(v) == IF v = NaN THEN <<>> ELSE v

\* fillna("").astype(str).str.strip(), and the same followed by str.upper()
Limpo(v) == Strip(FillNa(v))

LimpoUpper(v) == Upper(Limpo(v))

\* ------------------------------------------------------------- sequences
RECURSIVE PickFrom(_, _, _)
PickFrom(s, idx, i) ==
    IF i > Len(s) THEN <<>>
    ELSE (IF i \in idx THEN <<s[i]>> ELSE <<>>) \o PickFrom(s, idx, i + 1)

Pick(s, idx) == PickFrom(s, idx, 1)

Count(s, r) == Cardinality({i \in 1..Len(s) : s[i] = r})

SeqsUpTo(S, n) == UNION {[1..k -> S] : k \in 0..n}

\* ------------------------------------------------------------ the tables
Entidades ==
    {"servidores", "remuneracoes", "afastamentos", "observacoes",
     "cargofuncao", "funcao_cargo"}

\* colunas_necessarias of each importer (its CSV header names; the accented
\* pay headers are written in ASCII).
Colunas(e) ==
    CASE e = "servidores" ->
           {"Id_SERVIDOR_PORTAL", "NOME", "CPF", "DESCRICAO_CARGO",
            "ORGSUP_EXERCICIO", "ORG_EXERCICIO", "REGIME_JURIDICO",
            "JORNADA_DE_TRABALHO"}
      [] e = "remuneracoes" ->
           {"Id_SERVIDOR_PORTAL", "ANO", "MES", "REMUNERACAO_BASICA_BRUTA",
            "IRRF", "PSS_RPGS", "REMUNERACAO_APOS_DEDUCOES"}
      [] e = "afastamentos" ->
           {"Id_SERVIDOR_PORTAL", "ANO", "MES", "DATA_INICIO_AFASTAMENTO"}
      [] e = "observacoes" ->
           {"Id_SERVIDOR_PORTAL", "ANO", "MES", "OBSERVACAO"}
      [] e = "cargofuncao" ->
           {"CLASSE_CARGO", "REFERENCIA_CARGO", "PADRAO_CARGO", "NIVEL_CARGO",
            "FUNCAO", "DESCRICAO_CARGO", "NIVEL_FUNCAO"}
      [] e = "funcao_cargo" ->
           {"Id_SERVIDOR_PORTAL", "DATA_INGRESSO_CARGOFUNCAO", "CLASSE_CARGO",
            "REFERENCIA_CARGO", "PADRAO_CARGO", "NIVEL_CARGO", "FUNCAO",
            "DESCRICAO_CARGO", "NIVEL_FUNCAO"}

\* The loaders of the role catalog and of the role assignments wrap each
\* chunk in try/except; the other four let the store's error propagate.
CapturaErroDeLote(e) == e \in {"cargofuncao", "funcao_cargo"}

\* The outcome of the steps that precede the chunk loop.
Resultado(erro, registros, avisos) ==
    [erro |-> erro, registros |-> registros, avisos |-> avisos]

\* int() of a stripped text: optional sign and decimal digits.
SemSinal(s) == IF Len(s) > 0 /\ s[1] \in {"-", "+"} THEN Tail(s) ELSE s

Sinal(s) == IF Len(s) > 0 /\ s[1] = "-" THEN -1 ELSE 1

IntOk(v) == IsDecimal(SemSinal(Strip(v)))

IntOfStripped(s) == Sinal(s) * ToInt(SemSinal(s))

IntOf(v) == IntOfStripped(Strip(v))

\* DataFrame.drop_duplicates(subset=...): the first row of each key.
\* chaves[i] is the key of row i.
DropDuplicates(s, chaves) ==
    Pick(s, {i \in 1..Len(s) : \A j \in 1..(i - 1) : chaves[j] # chaves[i]})

\* --------------------------------------------------- importar_servidores
SrvId(r) == r.Id_SERVIDOR_PORTAL

LimparServidor(r) ==
    [id_servidor |-> ToInt(r.Id_SERVIDOR_PORTAL),
     nome |-> Limpo(r.NOME),
     cpf |-> Limpo(r.CPF),
     descr_cargo |-> Limpo(r.DESCRICAO_CARGO),
     org_superior |-> LimpoUpper(r.ORGSUP_EXERCICIO),
     org_exercicio |-> LimpoUpper(r.ORG_EXERCICIO),
     regime |-> LimpoUpper(r.REGIME_JURIDICO),
     jornada_trabalho |-> LimpoUpper(r.JORNADA_DE_TRABALHO)]

\* astype(int) over the rows that passed the filters: it raises when an id
\* is numeric for str.isnumeric() and no decimal number.
ConverterServidores(unicos) ==
    IF \E i \in 1..Len(unicos) : ~IsDecimal(SrvId(unicos[i]))
    THEN Resultado("astype", <<>>, <<>>)
    ELSE Resultado("", [i \in 1..Len(unicos) |-> LimparServidor(unicos[i])], <<>>)

\* drop_duplicates(subset="id_servidor"), on the id as text.
UnicosPorId(numericos) ==
    DropDuplicates(numericos, [i \in 1..Len(numericos) |-> SrvId(numericos[i])])

NormalizarServidores(linhas) ==
    ConverterServidores(UnicosPorId(SelectSeq(linhas, LAMBDA r : IsNumeric(SrvId(r)))))

SrvRow(id, nome, org) ==
    [Id_SERVIDOR_PORTAL |-> id, NOME |-> nome, CPF |-> <<"1", "2">>,
     DESCRICAO_CARGO |-> <<"T", "e", "c">>, ORGSUP_EXERCICIO |-> org,
     ORG_EXERCICIO |-> <<"m", "e", "c", " ">>, REGIME_JURIDICO |-> NaN,
     JORNADA_DE_TRABALHO |-> <<"4", "0">>]

RawServidores ==
    {SrvRow(<<"7">>, <<" ", "A", "n", "a">>, <<"m", "e", "c">>),
     SrvRow(<<"0", "7">>, <<"B", "i", "a">>, <<"M", "E", "C">>),
     SrvRow(<<"8">>, <<"E", "d">>, <<"-", "1">>),
     SrvRow(<<"x", "1">>, <<"E", "d">>, <<"m", "e", "c">>),
     SrvRow(NaN, <<"E", "d">>, NaN)}

\* ------------------------------- the key columns of pay, absence, remark
\* dropna on the key columns and the isnumeric filter.
FiltrarChaves(linhas, obrigatorias) ==
    SelectSeq(linhas, LAMBDA r :
        /\ \A c \in obrigatorias : r[c] # NaN
        /\ IsNumeric(r.Id_SERVIDOR_PORTAL))

\* astype(int) on id, year and month raises on a text int() rejects.
ErroDeConversao(linhas) ==
    \E i \in 1..Len(linhas) :
        \/ ~IsDecimal(linhas[i].Id_SERVIDOR_PORTAL)
        \/ ~IntOk(linhas[i].ANO)
        \/ ~IntOk(linhas[i].MES)

\* limpas[i] is the record of row i.
Converter(linhas, limpas) ==
    IF ErroDeConversao(linhas) THEN Resultado("astype", <<>>, <<>>)
    ELSE Resultado("", limpas, <<>>)

\* -------------------------------------------------- importar_remuneracoes
\* float() of a stripped, unsigned text: digits with at most one ".".
Pontos(b) == {i \in 1..Len(b) : b[i] = "."}

FloatOk(b) ==
    /\ Cardinality(Pontos(b)) <= 1
    /\ \A i \in (1..Len(b)) \ Pontos(b) : b[i] \in Digits
    /\ \E i \in 1..Len(b) : b[i] \in Digits

PosPonto(b) == IF Pontos(b) = {} THEN Len(b) + 1 ELSE SetMin(Pontos(b))

\* Hundredths of a fraction, as the Numeric(10, 2) column rounds it.
Centesimos(f) == ToInt(SubSeq(f, 1, 2)) + (IF DigitVal(f[3]) >= 5 THEN 1 ELSE 0)

Centavos(b, d) ==
    100 * ToInt(SubSeq(b, 1, d - 1))
      + Centesimos(SubSeq(b, d + 1, Len(b)) \o <<"0", "0", "0">>)

FloatOfStripped(s) ==
    IF FloatOk(SemSinal(s))
    THEN Sinal(s) * Centavos(SemSinal(s), PosPonto(SemSinal(s)))
    ELSE 0

VirgulaParaPonto(s) == [i \in 1..Len(s) |-> IF s[i] = "," THEN "." ELSE s[i]]

\* float(val.replace(".", "").replace(",", ".")), 0.0 on any error; the
\* value is kept in hundredths.
to_float(val) ==
    FloatOfStripped(Strip(VirgulaParaPonto(SelectSeq(val, LAMBDA c : c # "."))))

\* fillna("0,00").astype(str).apply(to_float)
Moeda(v) == to_float(IF v = NaN THEN <<"0", ",", "0", "0">> ELSE v)

LimparRemuneracao(r) ==
    [id_servidor |-> ToInt(r.Id_SERVIDOR_PORTAL),
     ano |-> IntOf(r.ANO), mes |-> IntOf(r.MES),
     remuneracao |-> Moeda(r.REMUNERACAO_BASICA_BRUTA),
     irrf |-> Moeda(r.IRRF),
     pss_rpgs |-> Moeda(r.PSS_RPGS),
     remuneracao_final |-> Moeda(r.REMUNERACAO_APOS_DEDUCOES)]

ConverterRemuneracoes(validas) ==
    Converter(validas, [i \in 1..Len(validas) |-> LimparRemuneracao(validas[i])])

NormalizarRemuneracoes(linhas) ==
    ConverterRemuneracoes(FiltrarChaves(linhas, {"Id_SERVIDOR_PORTAL", "ANO", "MES"}))

PayRow(id, mes, bruta, final) ==
    [Id_SERVIDOR_PORTAL |-> id, ANO |-> <<"2", "0", "2", "3">>, MES |-> mes,
     REMUNERACAO_BASICA_BRUTA |-> bruta, IRRF |-> NaN,
     PSS_RPGS |-> <<"0", ",", "0", "0">>, REMUNERACAO_APOS_DEDUCOES |-> final]

RawRemuneracoes ==
    {PayRow(<<"7">>, <<"1">>, <<"1", ".", "2", "3", "4", ",", "5", "6">>,
            <<"9", "0", "0", ",", "5">>),
     PayRow(<<"8">>, <<"1", "2">>, <<"a", "b">>, <<"1", "0">>),
     PayRow(NaN, <<"1">>, <<"1", "0">>, <<"1", "0">>),
     PayRow(<<"7", "SUP2">>, <<"1">>, <<"1", "0">>, <<"1", "0">>),
     PayRow(<<"7">>, <<"1", "3">>, <<"-", "5", ",", "0", "0">>, <<"1", "0">>)}

\* --------------------------------------------------- importar_afastamentos
Bissexto(y) == (y % 4 = 0 /\ y % 100 # 0) \/ y % 400 = 0

DiasDoMes(m, y) ==
    IF m = 2 THEN (IF Bissexto(y) THEN 29 ELSE 28)
    ELSE IF m \in {4, 6, 9, 11} THEN 30 ELSE 31

DataValida(y, m, d) ==
    IF y >= 1 /\ m \in 1..12 /\ d \in 1..DiasDoMes(m, y) THEN {<<y, m, d>>} ELSE NULL

DataDasPartes(dd, mm, yy) ==
    IF /\ IsDecimal(dd) /\ Len(dd) <= 2
       /\ IsDecimal(mm) /\ Len(mm) <= 2
       /\ IsDecimal(yy) /\ Len(yy) = 4
    THEN DataValida(ToInt(yy), ToInt(mm), ToInt(dd))
    ELSE NULL

DataEntreBarras(s, barras) ==
    IF Cardinality(barras) # 2 THEN NULL
    ELSE DataDasPartes(SubSeq(s, 1, SetMin(barras) - 1),
                       SubSeq(s, SetMin(barras) + 1, SetMax(barras) - 1),
                       SubSeq(s, SetMax(barras) + 1, Len(s)))

DataDe(s) == DataEntreBarras(s, {i \in 1..Len(s) : s[i] = "/"})

\* datetime.strptime(valor.strip(), "%d/%m/%Y").date(), None on any error
\* (the same function in the absence and the role-assignment importers).
parse_data(valor) == IF valor = NaN THEN NULL ELSE DataDe(Strip(valor))

LimparAfastamento(r) ==
    [id_servidor |-> ToInt(r.Id_SERVIDOR_PORTAL),
     ano |-> IntOf(r.ANO), mes |-> IntOf(r.MES),
     inicio_afastamento |-> parse_data(r.DATA_INICIO_AFASTAMENTO),
     duracao_dias |-> 1]

ConverterAfastamentos(validas) ==
    Converter(validas, [i \in 1..Len(validas) |-> LimparAfastamento(validas[i])])

NormalizarAfastamentos(linhas) ==
    ConverterAfastamentos(FiltrarChaves(linhas, {"Id_SERVIDOR_PORTAL", "ANO", "MES"}))

AfaRow(id, mes, inicio) ==
    [Id_SERVIDOR_PORTAL |-> id, ANO |-> <<"2", "0", "2", "3">>, MES |-> mes,
     DATA_INICIO_AFASTAMENTO |-> inicio]

RawAfastamentos ==
    {AfaRow(<<"7">>, <<"3">>, <<"1", "5", "/", "0", "3", "/", "2", "0", "2", "3">>),
     AfaRow(<<"8">>, <<"2">>, <<"3", "0", "/", "0", "2", "/", "2", "0", "2", "3">>),
     AfaRow(<<"7", "a">>, <<"3">>, NaN)}

\* --------------------------------------------------- importar_observacoes
Contains(s, t) ==
    \E i \in 1..(Len(s) - Len(t) + 1) : SubSeq(s, i, i + Len(t) - 1) = t

AcimaDoTeto ==
    <<"A", "C", "I", "M", "A", " ", "D", "O", " ", "T", "E", "T", "O">>

Observacao(id, ano, mes, texto) ==
    [id_servidor |-> id, ano |-> ano, mes |-> mes, observacao |-> texto,
     flag_teto |-> Contains(Upper(texto), AcimaDoTeto)]

LimparObservacao(r) ==
    Observacao(ToInt(r.Id_SERVIDOR_PORTAL), IntOf(r.ANO), IntOf(r.MES),
               Strip(r.OBSERVACAO))

ConverterObservacoes(validas) ==
    Converter(validas, [i \in 1..Len(validas) |-> LimparObservacao(validas[i])])

NormalizarObservacoes(linhas) ==
    ConverterObservacoes(FiltrarChaves(linhas, {"Id_SERVIDOR_PORTAL", "ANO", "MES", "OBSERVACAO"}))

ObsRow(id, mes, obs) ==
    [Id_SERVIDOR_PORTAL |-> id, ANO |-> <<"2", "0", "2", "3">>, MES |-> mes,
     OBSERVACAO |-> obs]

RawObservacoes ==
    {ObsRow(<<"7">>, <<"3">>,
            <<" ", "a", "c", "i", "m", "a", " ", "d", "o", " ", "T", "e", "t", "o">>),
     ObsRow(<<"8">>, <<"4">>, <<"o", "k">>),
     ObsRow(<<"8">>, <<"4">>, NaN)}

\* ------------------------------------------------ importar_cargosfuncoes
\* "sem informação" and "sem informaç" (c_cedilha and a_til stand for the
\* two accented letters).
SemInformacao ==
    <<"s", "e", "m", " ", "i", "n", "f", "o", "r", "m", "a", "c_cedilha",
      "a_til", "o">>

SemInformac == SubSeq(SemInformacao, 1, 12)

TextoLimpo(v) ==
    IF Lower(v) \in {SemInformacao, SemInformac, <<>>} THEN NULL ELSE {v}

limpar_str(val) == IF val = NaN THEN NULL ELSE TextoLimpo(Strip(val))

\* int(float(val)): None for -1.0 and 0.0, the truncated value otherwise.
\* Every value of the model lies far inside the BIGINT range the code tests.
InteiroLimpo(n, inteiro) == IF inteiro /\ n \in {-1, 0} THEN NULL ELSE {n}

FloatTrunc(b) == ToInt(SubSeq(b, 1, PosPonto(b) - 1))

FloatIsWhole(b) == \A i \in 1..Len(b) : i > PosPonto(b) => b[i] = "0"

InteiroDe(s) ==
    IF ~FloatOk(SemSinal(s)) THEN NULL
    ELSE InteiroLimpo(Sinal(s) * FloatTrunc(SemSinal(s)), FloatIsWhole(SemSinal(s)))

limpar_int(val) == IF val = NaN THEN NULL ELSE InteiroDe(Strip(val))

RECURSIVE NatToStr(_)
NatToStr(n) ==
    IF n < 10 THEN <<CHOOSE c \in Digits : DigitVal(c) = n>>
    ELSE NatToStr(n \div 10) \o <<CHOOSE c \in Digits : DigitVal(c) = n % 10>>

None == <<"N", "o", "n", "e">>

TheOne(o) == CHOOSE t \in o : TRUE

IntToStr(n) == IF n < 0 THEN <<"-">> \o NatToStr(0 - n) ELSE NatToStr(n)

\* astype(str) of a cleaned cell.
StrOfText(o) == IF o = NULL THEN None ELSE TheOne(o)

StrOfInt(o) == IF o = NULL THEN None ELSE IntToStr(TheOne(o))

LimparCargo(r) ==
    [classe_cargo |-> limpar_str(r.CLASSE_CARGO),
     referencia_cargo |-> limpar_int(r.REFERENCIA_CARGO),
     padrao_cargo |-> limpar_int(r.PADRAO_CARGO),
     nivel_cargo |-> limpar_int(r.NIVEL_CARGO),
     funcao |-> limpar_str(r.FUNCAO),
     descricao_cargo |-> Limpo(r.DESCRICAO_CARGO),
     nivel_funcao |-> limpar_int(r.NIVEL_FUNCAO)]

\* The seven cleaned fields as text, joined by "|".
chave_logica(c) ==
    StrOfText(c.classe_cargo) \o <<"|">> \o StrOfInt(c.referencia_cargo)
      \o <<"|">> \o StrOfInt(c.padrao_cargo) \o <<"|">> \o StrOfInt(c.nivel_cargo)
      \o <<"|">> \o StrOfText(c.funcao) \o <<"|">> \o c.descricao_cargo
      \o <<"|">> \o StrOfInt(c.nivel_funcao)

\* The cleaning, the drop_duplicates on chave_logica, and the sanitizing
\* pass, which finds nothing left to change in a cleaned row.
UnicosPorChave(limpos) ==
    DropDuplicates(limpos, [i \in 1..Len(limpos) |-> chave_logica(limpos[i])])

NormalizarCargosFuncoes(linhas) ==
    Resultado("", UnicosPorChave([i \in 1..Len(linhas) |-> LimparCargo(linhas[i])]), <<>>)

CatRow(classe, padrao, nivel, desc) ==
    [CLASSE_CARGO |-> classe, REFERENCIA_CARGO |-> NaN, PADRAO_CARGO |-> padrao,
     NIVEL_CARGO |-> nivel, FUNCAO |-> <<" ">>, DESCRICAO_CARGO |-> desc,
     NIVEL_FUNCAO |-> <<"0">>]

RawCargosFuncoes ==
    {CatRow(<<"A">>, <<"1">>, NaN, <<"T", "e", "c">>),
     CatRow(<<"A", " ">>, <<"1", ".", "0">>, <<"0">>, <<"T", "e", "c", " ">>),
     CatRow(<<"B">>, <<"1">>, NaN, <<"T", "e", "c">>),
     CatRow(<<" ", "N", "o", "n", "e">>, <<"-", "1">>, NaN, <<"A", "u", "x">>),
     CatRow(<<"S", "e", "m", " ", "I", "n", "f", "o", "r", "m", "a",
              "c_cedilha", "a_til", "o">>, <<"-", "1">>, <<"x">>, <<"A", "u", "x">>)}

\* --------------------------------------------------- importar_funcaocargo
CamposNumericos ==
    {"padrao_cargo", "referencia_cargo", "nivel_cargo", "nivel_funcao"}

Sentinelas == {SemInformacao, SemInformac, <<>>, <<"-", "1">>}

\* str.isdigit(): also true of superscript digits, which int() rejects.
IsDigit(s) ==
    Len(s) > 0 /\ \A i \in 1..Len(s) : s[i] \in Digits \cup {"SUP2"}

ValorLimpo(v, campo) ==
    IF Lower(v) \in Sentinelas THEN NULL
    ELSE IF campo \in CamposNumericos
         THEN (IF IsDigit(v) THEN {ToInt(v)} ELSE NULL)
         ELSE {v}

limpar_valor(val, campo) == IF val = NaN THEN NULL ELSE ValorLimpo(Strip(val), campo)

\* int(val) raises, outside any try, on a digit string int() rejects.
FalhaDeInt(v, campo) ==
    /\ campo \in CamposNumericos
    /\ Lower(v) \notin Sentinelas
    /\ IsDigit(v)
    /\ ~IsDecimal(v)

LimparValorFalha(val, campo) == val # NaN /\ FalhaDeInt(Strip(val), campo)

\* The key of a stored catalog row (the loop over todos_cargos).
ChaveDoCargo(cargo) ==
    <<cargo.classe_cargo, cargo.padrao_cargo, cargo.nivel_cargo,
      {cargo.descricao_cargo}>>

\* The key cleaned from an incoming assignment row.
ChaveDaLinha(row) ==
    <<limpar_valor(row.CLASSE_CARGO, "classe_cargo"),
      limpar_valor(row.PADRAO_CARGO, "padrao_cargo"),
      limpar_valor(row.NIVEL_CARGO, "nivel_cargo"),
      limpar_valor(row.DESCRICAO_CARGO, "descricao_cargo")>>

\* A lookup table that holds no entry of the catalog read.
mapa_vazio(todos_cargos) == [chave \in {} |-> 0]

\* The dict built from the catalog snapshot: a later row replaces an earlier
\* one with the same key.
mapa_cargos(todos_cargos) ==
    [chave \in {ChaveDoCargo(todos_cargos[i]) : i \in 1..Len(todos_cargos)} |->
        todos_cargos[SetMax({i \in 1..Len(todos_cargos) :
                                ChaveDoCargo(todos_cargos[i]) = chave})].id_cargo_funcao]

\* A lookup that finds the first catalog entry for every key.
IdFixo(mapa, chave) == 1

\* mapa_cargos.get(chave), 0 standing for None (both are falsy in the test
\* that follows it).
IdDoCargo(mapa, chave) == IF chave \in DOMAIN mapa THEN mapa[chave] ELSE 0

Vinculo(row, id_cargo) ==
    [id_servidor |-> ToInt(row.Id_SERVIDOR_PORTAL),
     id_cargo_funcao |-> id_cargo,
     data_ingresso_funcao |-> parse_data(row.DATA_INGRESSO_CARGOFUNCAO)]

AvisoSkip(row) == <<"SKIP", ToInt(row.Id_SERVIDOR_PORTAL), ChaveDaLinha(row)[4]>>

AvisoNenhum == <<"Nenhum vinculo valido para importar">>

\* The loop over the rows: `ids` holds the catalog id found for each row.
Vinculos(validas, ids) ==
    Pick([i \in 1..Len(validas) |-> Vinculo(validas[i], ids[i])],
         {i \in 1..Len(validas) : ids[i] # 0})

\* A loop that drops the unmatched rows without a word.
SemAvisos(validas, ids) == <<>>

AvisosDeSkip(validas, ids) ==
    Pick([i \in 1..Len(validas) |-> AvisoSkip(validas[i])],
         {i \in 1..Len(validas) : ids[i] = 0})

Resolvido(registros, avisos) ==
    Resultado("", registros,
              avisos \o (IF registros = <<>> THEN <<AvisoNenhum>> ELSE <<>>))

Resolver(validas, ids) ==
    Resolvido(Vinculos(validas, ids), AvisosDeSkip(validas, ids))

LinhasDeVinculo(linhas) ==
    SelectSeq(linhas, LAMBDA r :
        /\ r.Id_SERVIDOR_PORTAL # NaN
        /\ r.DESCRICAO_CARGO # NaN
        /\ IsNumeric(r.Id_SERVIDOR_PORTAL))

ProcurarCargos(validas, mapa) ==
    IF \E i \in 1..Len(validas) : ~IsDecimal(validas[i].Id_SERVIDOR_PORTAL)
    THEN Resultado("astype", <<>>, <<>>)
    ELSE IF \E i \in 1..Len(validas) :
               \E c \in {"PADRAO_CARGO", "NIVEL_CARGO"} :
                   LimparValorFalha(validas[i][c], "padrao_cargo")
         THEN Resultado("int", <<>>, <<>>)
         ELSE Resolver(validas,
                  [i \in 1..Len(validas) |-> IdDoCargo(mapa, ChaveDaLinha(validas[i]))])

NormalizarFuncaoCargo(linhas, todos_cargos) ==
    ProcurarCargos(LinhasDeVinculo(linhas), mapa_cargos(todos_cargos))

VinRow(id, classe, padrao, desc) ==
    [Id_SERVIDOR_PORTAL |-> id,
     DATA_INGRESSO_CARGOFUNCAO |-> <<"0", "1", "/", "0", "2", "/", "2", "0", "2", "0">>,
     CLASSE_CARGO |-> classe, REFERENCIA_CARGO |-> <<"9">>, PADRAO_CARGO |-> padrao,
     NIVEL_CARGO |-> <<"-", "1">>, FUNCAO |-> NaN, DESCRICAO_CARGO |-> desc,
     NIVEL_FUNCAO |-> NaN]

RawFuncaoCargo ==
    {VinRow(<<"7">>, <<" ", "A">>, <<"1">>, <<"T", "e", "c">>),
     VinRow(<<"8">>, NaN, <<"x">>, <<"A", "u", "x", " ">>),
     VinRow(<<"7">>, <<"B">>, <<"1">>, <<"T", "e", "c">>),
     [VinRow(<<"8">>, <<"A", " ">>, <<"1", ".", "0">>, <<"T", "e", "c", " ">>)
         EXCEPT !.NIVEL_CARGO = <<"0">>]}

\* ------------------------------------------------------------ the uploads
Raw(e) ==
    CASE e = "servidores" -> RawServidores
      [] e = "remuneracoes" -> RawRemuneracoes
      [] e = "afastamentos" -> RawAfastamentos
      [] e = "observacoes" -> RawObservacoes
      [] e = "cargofuncao" -> RawCargosFuncoes
      [] e = "funcao_cargo" -> RawFuncaoCargo

\* An uploaded table of at most n rows: its rows and the expected column it
\* lacks ("" when the header is complete).
Arquivos(e, n) ==
    {[ausente |-> "", linhas |-> l] : l \in SeqsUpTo(Raw(e), n)}
      \cup {[ausente |-> c, linhas |-> <<CHOOSE r \in Raw(e) : TRUE>>] : c \in Colunas(e)}

\* An importer without the required-column loop.
ColunaIgnorada(e, arquivo) == FALSE

\* The required-column loop at the head of every importer.
ColunaAusente(e, arquivo) == arquivo.ausente \in Colunas(e)

Normalizar(e, linhas, todos_cargos) ==
    CASE e = "servidores" -> NormalizarServidores(linhas)
      [] e = "remuneracoes" -> NormalizarRemuneracoes(linhas)
      [] e = "afastamentos" -> NormalizarAfastamentos(linhas)
      [] e = "observacoes" -> NormalizarObservacoes(linhas)
      [] e = "cargofuncao" -> NormalizarCargosFuncoes(linhas)
      [] e = "funcao_cargo" -> NormalizarFuncaoCargo(linhas, todos_cargos)

\* Everything an importer does before its chunk loop.
Preparar(e, arquivo, todos_cargos) ==
    IF ColunaAusente(e, arquivo) THEN Resultado("coluna", <<>>, <<>>)
    ELSE Normalizar(e, arquivo.linhas, todos_cargos)

\* How the installed pandas holds a text column read with dtype=str: as an
\* object column, where str.isnumeric() of a missing cell is NaN, or as a
\* string column, where it is False.  The project pins no version.
Builds == {"objeto", "texto"}

\* df[df["id_servidor"].str.isnumeric()] of the servers importer, which drops
\* no missing id first: a mask holding NaN raises ValueError (Cannot mask
\* with non-boolean array containing NA / NaN values).
MascaraComNaN(build, e, arquivo) ==
    /\ build = "objeto"
    /\ e = "servidores"
    /\ ~ColunaAusente(e, arquivo)
    /\ \E i \in 1..Len(arquivo.linhas) : SrvId(arquivo.linhas[i]) = NaN

PrepararEm(build, e, arquivo, todos_cargos) ==
    IF MascaraComNaN(build, e, arquivo) THEN Resultado("mask", <<>>, <<>>)
    ELSE Preparar(e, arquivo, todos_cargos)

\* ------------------------------------------------------------- the store
\* INSERT ... ON CONFLICT DO NOTHING of one row.  Only servidores has a key
\* the incoming row can collide on (its primary key id_servidor); the other
\* tables have an autoincrement primary key and no unique constraint.
NuncaConflita(e, tabela, r) == FALSE

\* A store that refuses a row equal to one it holds, in every table.
ConflitaComIgual(e, tabela, r) == \E i \in 1..Len(tabela) : tabela[i] = r

Conflita(e, tabela, r) ==
    e = "servidores" /\ \E i \in 1..Len(tabela) : tabela[i].id_servidor = r.id_servidor

\* The stored row: the catalog row gets the next id_cargo_funcao.
LinhaGravada(e, tabela, r) ==
    IF e = "cargofuncao"
    THEN [id_cargo_funcao |-> Len(tabela) + 1,
          classe_cargo |-> r.classe_cargo,
          referencia_cargo |-> r.referencia_cargo,
          padrao_cargo |-> r.padrao_cargo,
          nivel_cargo |-> r.nivel_cargo,
          funcao |-> r.funcao,
          descricao_cargo |-> r.descricao_cargo,
          nivel_funcao |-> r.nivel_funcao]
    ELSE r

\* INSERT ... ON CONFLICT DO UPDATE: the incoming row replaces the stored one.
SobrescreverLinha(e, tabela, r) ==
    IF e = "servidores" /\ \E i \in 1..Len(tabela) : tabela[i].id_servidor = r.id_servidor
    THEN [i \in 1..Len(tabela) |->
             IF tabela[i].id_servidor = r.id_servidor THEN r ELSE tabela[i]]
    ELSE Append(tabela, r)

InserirLinha(e, tabela, r) ==
    IF Conflita(e, tabela, r) THEN tabela
    ELSE Append(tabela, LinhaGravada(e, tabela, r))

\* session.execute(text(sql), chunk) followed by session.commit().
RECURSIVE Inserir(_, _, _)
Inserir(e, tabela, chunk) ==
    IF chunk = <<>> THEN tabela
    ELSE Inserir(e, InserirLinha(e, tabela, Head(chunk)), Tail(chunk))

\* registros[i:i + chunk_size]
Lote(registros, i) == SubSeq(registros, i + 1, Min(i + chunk_size, Len(registros)))

\* ------------------------------------------------------ ServidorAnalytics
\* The years a report is asked for.
Anos == {2023, 2024}

\* Reports one engine instance runs, and engine instances one behaviour
\* creates.
MaxRelatorios == 2

MaxInstancias == 2

\* Absence rows of the store the reports read.
MaxAfastamentos == 1

\* round(num / den, 0) for den > 0, as Python rounds: to the nearest integer,
\* a half to the even one.  q is the floor of the quotient and r2 twice its
\* remainder.
ParaOPar(q, r2, den) ==
    IF r2 < den THEN q
    ELSE IF r2 > den THEN q + 1
    ELSE IF q % 2 = 0 THEN q ELSE q + 1

Arredondar(num, den) ==
    ParaOPar(num \div den, 2 * (num - den * (num \div den)), den)

\* The same for a divisor of either sign.
Quociente(num, den) ==
    IF den < 0 THEN Arredondar(0 - num, 0 - den) ELSE Arredondar(num, den)

\* a / b of two Python numbers, scaled by escala: it raises when b is 0.
Dividir(a, b, escala) ==
    IF b = 0 THEN [raise |-> "ZeroDivisionError", valor |-> 0]
    ELSE [raise |-> "", valor |-> Quociente(escala * a, b)]

\* .filter(<table>.ano == ano)
DoAno(tabela, ano) == SelectSeq(tabela, LAMBDA r : r.ano = ano)

\* func.sum, func.min and func.max over remuneracao_final, in hundredths.
RECURSIVE SomaFinal(_)
SomaFinal(pagos) ==
    IF pagos = <<>> THEN 0 ELSE Head(pagos).remuneracao_final + SomaFinal(Tail(pagos))

Finais(pagos) == {pagos[i].remuneracao_final : i \in 1..Len(pagos)}

\* func.sum(Afastamento.duracao_dias)
RECURSIVE SomaDias(_)
SomaDias(afastados) ==
    IF afastados = <<>> THEN 0 ELSE Head(afastados).duracao_dias + SomaDias(Tail(afastados))

\* query(Servidor.id_servidor).join(Remuneracao)
\*     .filter(Remuneracao.ano == ano).distinct().count()
servidores_ativos(banco, ano) ==
    Cardinality({banco.servidores[i].id_servidor : i \in
                    {j \in 1..Len(banco.servidores) :
                        \E k \in 1..Len(banco.remuneracoes) :
                            /\ banco.remuneracoes[k].ano = ano
                            /\ banco.remuneracoes[k].id_servidor
                                   = banco.servidores[j].id_servidor}})

\* round(func.avg(remuneracao_final) or 0, 2): the mean of the year's pay
\* rows in hundredths, 0 for a year without rows.
media_remuneracao(pagos) ==
    IF pagos = <<>> THEN 0 ELSE Arredondar(SomaFinal(pagos), Len(pagos))

\* InsightSummary(tipo, titulo, valor, descricao, periodo) with
\* periodo=str(ano); the description is left out.
InsightSummary(tipo, titulo, valor, ano) ==
    [tipo |-> tipo, titulo |-> titulo, valor |-> valor, periodo |-> IntToStr(ano)]

\* What a method of the engine leaves: the insight list and its return value.
Feito(insights, retorno) == [insights |-> insights, retorno |-> retorno]

\* self.insights.append(insight)
Substituir(insights, insight) == <<insight>>

Acrescentar(insights, insight) == Append(insights, insight)

\* round((servidores_ativos / total_servidores) * 100, 2)
\*     if total_servidores > 0 else 0, in hundredths of a percent.
taxa_atividade(ativos, total) ==
    IF total > 0 THEN Arredondar(10000 * ativos, total) ELSE 0

ResumoDe(insights, ano, total, ativos, pagos) ==
    Feito(Acrescentar(insights,
              InsightSummary("geral", "Total de Servidores Ativos", ativos, ano)),
          [total_servidores |-> total,
           servidores_ativos |-> ativos,
           total_remuneracao |-> SomaFinal(pagos),
           media_remuneracao |-> media_remuneracao(pagos),
           taxa_atividade |-> taxa_atividade(ativos, total)])

resumo_geral(insights, banco, ano) ==
    ResumoDe(insights, ano, Len(banco.servidores), servidores_ativos(banco, ano),
             DoAno(banco.remuneracoes, ano))

\* stats.maxima / stats.minima if stats.minima > 0 else 0, as "{:.1f}x"
\* renders it: in tenths.
disparidade(maxima, minima) ==
    IF minima > 0 THEN Arredondar(10 * maxima, minima) ELSE 0

Estatisticas(pagos) ==
    IF pagos = <<>>
    THEN [minima |-> 0, maxima |-> 0, media |-> 0, total_registros |-> 0]
    ELSE [minima |-> SetMin(Finais(pagos)), maxima |-> SetMax(Finais(pagos)),
          media |-> media_remuneracao(pagos), total_registros |-> Len(pagos)]

\* The insight of the pay analysis is appended only when the year has rows
\* and neither its highest nor its lowest pay is 0.
RemuneracaoDe(insights, ano, est) ==
    Feito(IF est.total_registros > 0 /\ est.maxima # 0 /\ est.minima # 0
          THEN Acrescentar(insights,
                   InsightSummary("remuneracao", "Disparidade Salarial",
                                  disparidade(est.maxima, est.minima), ano))
          ELSE insights,
          [estatisticas |-> est])

\* The rankings the method also returns (top pay, pay by role) read the
\* store and touch no state.
analise_remuneracao(insights, banco, ano) ==
    RemuneracaoDe(insights, ano, Estatisticas(DoAno(banco.remuneracoes, ano)))

\* The rate with every person active, whatever the year.
TaxaSobreTodos(total_afastamentos, ativos, escala) == escala * total_afastamentos

\* (total_afastamentos / servidores_ativos) * 100 if servidores_ativos > 0
\*     else 0; escala 10000 gives hundredths of a percent, 1000 tenths.
taxa_afastamento(total_afastamentos, ativos, escala) ==
    IF ativos > 0 THEN Arredondar(escala * total_afastamentos, ativos) ELSE 0

AfastamentosDe(insights, ano, afastados, ativos) ==
    Feito(Acrescentar(insights,
              InsightSummary("afastamento", "Taxa de Afastamento",
                             taxa_afastamento(Len(afastados), ativos, 1000), ano)),
          [total_afastamentos |-> Len(afastados),
           total_dias_afastamento |-> SomaDias(afastados),
           taxa_afastamento |-> taxa_afastamento(Len(afastados), ativos, 10000)])

\* The rankings the method also returns (most absent persons, absences by
\* month) read the store and touch no state.
analise_afastamentos(insights, banco, ano) ==
    AfastamentosDe(insights, ano, DoAno(banco.afastamentos, ano),
                   servidores_ativos(banco, ano))

\* The report dictionary; _distribuicao_organizacional and _gerar_graficos
\* append no insight, and _gerar_graficos swallows its own errors.
Montado(ano, resumo, remuneracao, afastamentos) ==
    Feito(afastamentos.insights,
          [periodo |-> ano,
           resumo_geral |-> resumo.retorno,
           analise_remuneracao |-> remuneracao.retorno,
           analise_afastamentos |-> afastamentos.retorno])

AposRemuneracao(banco, ano, resumo, remuneracao) ==
    Montado(ano, resumo, remuneracao,
            analise_afastamentos(remuneracao.insights, banco, ano))

AposResumo(banco, ano, resumo) ==
    AposRemuneracao(banco, ano, resumo,
                    analise_remuneracao(resumo.insights, banco, ano))

gerar_relatorio_completo(insights, banco, ano) ==
    AposResumo(banco, ano, resumo_geral(insights, banco, ano))

\* relatorio['insights'] of the k-th report an engine returned: the report
\* dictionary holds self.insights itself, not a copy, so it shows the list
\* as the engine has it now.
InsightsDoRelatorio(a, k) == a.insights

\* The chart files of _gerar_graficos, in the order it renders them.
NomesDosGraficos ==
    <<"evolucao_remuneracao_mensal.png", "remuneracao_por_cargo.png",
      "afastamentos_por_mes.png", "distribuicao_organizacional.png",
      "remuneracao_vs_afastamentos.png">>

\* The chart whose rendering raises: 1 to 5, or 0 when none does.
Falhas == 0..Len(NomesDosGraficos)

\* A loop that goes on after the chart that failed.
GraficosSemOQueFalhou(falha) ==
    SelectSeq(NomesDosGraficos, LAMBDA nome : falha = 0 \/ nome # NomesDosGraficos[falha])

\* _gerar_graficos: each name is appended after its chart was rendered, all
\* inside one try whose except prints the error; the list built so far is
\* returned.
graficos_gerados(falha) ==
    SubSeq(NomesDosGraficos, 1, IF falha = 0 THEN Len(NomesDosGraficos) ELSE falha - 1)

\* relatorio['graficos_gerados'] = self._gerar_graficos(ano)
ComGraficos(feito, graficos) ==
    Feito(feito.insights,
          [periodo |-> feito.retorno.periodo,
           resumo_geral |-> feito.retorno.resumo_geral,
           analise_remuneracao |-> feito.retorno.analise_remuneracao,
           analise_afastamentos |-> feito.retorno.analise_afastamentos,
           graficos_gerados |-> graficos])

\* A caller that keeps the list between two reports.
NaoLimpar(insights) == insights

\* analytics.insights.clear()
Limpar(insights) == <<>>

\* A variation that answers 0 for a year 1 without pay.
VariacaoGuardada(diferenca, media1) ==
    IF media1 = 0 THEN [raise |-> "", valor |-> 0]
    ELSE Dividir(diferenca, media1, 10000)

\* round((diferenca_remuneracao / media1) * 100, 2), in hundredths of a
\* percent.
percentual_variacao(diferenca, media1) == Dividir(diferenca, media1, 10000)

\* The response of the endpoint: the comparison, or the HTTPException(500)
\* its except clause raises for any exception.
Comparacao(ano1, ano2, r1, r2, variacao) ==
    IF variacao.raise # ""
    THEN [status |-> 500, corpo |-> <<>>]
    ELSE [status |-> 200,
          corpo |-> <<[diferenca_servidores_ativos |->
                          r2.servidores_ativos - r1.servidores_ativos,
                       diferenca_remuneracao_media |->
                          r2.media_remuneracao - r1.media_remuneracao,
                       percentual_variacao_remuneracao |-> variacao.valor,
                       ano1 |-> [ano |-> ano1, resumo |-> r1],
                       ano2 |-> [ano |-> ano2, resumo |-> r2]]>>]

Comparar(ano1, ano2, relatorio1, relatorio2) ==
    Feito(relatorio2.insights,
          Comparacao(ano1, ano2, relatorio1.retorno.resumo_geral,
                     relatorio2.retorno.resumo_geral,
                     percentual_variacao(
                         relatorio2.retorno.resumo_geral.media_remuneracao
                             - relatorio1.retorno.resumo_geral.media_remuneracao,
                         relatorio1.retorno.resumo_geral.media_remuneracao)))

SegundoAno(banco, ano1, ano2, relatorio1) ==
    Comparar(ano1, ano2, relatorio1,
             gerar_relatorio_completo(Limpar(relatorio1.insights), banco, ano2))

\* The body of comparativo_anos on a new engine.
comparativo_anos(banco, ano1, ano2) ==
    SegundoAno(banco, ano1, ano2, gerar_relatorio_completo(<<>>, banco, ano1))

\* The engine: inst numbers the ServidorAnalytics objects created so far (0:
\* none yet) and insights is the list of the latest one; op, anos and limpou
\* record the last operation, the years of the reports the instance has run
\* and whether a caller has cleared its list; retorno is what the last
\* operation returned and falha the chart that failed in the last report.
SemInstancia ==
    [inst |-> 0, insights |-> <<>>, op |-> "", anos |-> <<>>, limpou |-> FALSE,
     retorno |-> <<>>, falha |-> 0]

\* --------------------------------------------------------- the importers
\* The sessions that can serve an import request; every import endpoint opens
\* a session of its own, so two requests can run side by side.
Procs == {1, 2}

\* The session of the behaviours that serve one request at a time.
Sequencial == {1}

Parado ==
    [pc |-> "idle", ent |-> "", arquivo |-> [ausente |-> "", linhas |-> <<>>],
     erro |-> "", registros |-> <<>>, avisos |-> <<>>, i |-> 0,
     total_processados |-> 0, lotes |-> <<>>, todos_cargos |-> <<>>,
     antes |-> <<>>, base |-> <<>>, seguidas |-> 0]

\* The previous request of q was a complete import of this same file.
Repete(q, e, arquivo) ==
    /\ q.pc = "returned"
    /\ q.ent = e
    /\ q.arquivo = arquivo
    /\ \A k \in 1..Len(q.lotes) : q.lotes[k] = "ok"

\* The importer as it enters its chunk loop, or as it ends before it: on an
\* exception, or with nothing to insert.  todos_cargos is the catalog the
\* role-assignment importer has read by then; antes, base and seguidas record
\* the table as the request found it, the table before the first of a run of
\* complete imports of one file, and the length of that run.
Iniciado(e, arquivo, res, tabela, todos, repete, q) ==
    [pc |-> IF res.erro # "" THEN "raised"
            ELSE IF res.registros = <<>> THEN "returned" ELSE "loop",
     ent |-> e, arquivo |-> arquivo, erro |-> res.erro,
     registros |-> res.registros, avisos |-> res.avisos, i |-> 0,
     total_processados |-> 0, lotes |-> <<>>,
     todos_cargos |-> IF e = "funcao_cargo" /\ res.erro \notin {"coluna", "astype"}
                      THEN todos ELSE <<>>,
     antes |-> tabela,
     base |-> IF repete THEN q.base ELSE tabela,
     seguidas |-> IF repete THEN q.seguidas + 1 ELSE 1]

\* A request arrives: the column check, the normalization and, for the role
\* assignments, the catalog snapshot and the lookup of every row.
Importar(p, E, n, repetir) ==
    /\ imp[p].pc = "idle" \/ (repetir /\ imp[p].pc \in {"returned", "raised"})
    /\ n_imports < MaxImports
    /\ \E e \in E : \E arquivo \in Arquivos(e, n) : \E build \in Builds :
          imp' = [imp EXCEPT ![p] =
                    Iniciado(e, arquivo,
                             PrepararEm(build, e, arquivo, db.cargofuncao),
                             db[e], db.cargofuncao, Repete(imp[p], e, arquivo),
                             imp[p])]
    /\ n_imports' = n_imports + 1
    /\ UNCHANGED <<db, analytics>>

Avancar(q, resultado) ==
    [q EXCEPT !.i = q.i + chunk_size,
              !.lotes = Append(q.lotes, resultado),
              !.pc = IF q.i + chunk_size >= Len(q.registros) THEN "returned" ELSE "loop"]

\* A count of the chunks, not of their rows.
SomarLote(q, chunk) == [q EXCEPT !.total_processados = q.total_processados + 1]

Somar(q, chunk) == [q EXCEPT !.total_processados = q.total_processados + Len(chunk)]

\* The importer after an error of the store in one chunk.
AposErro(q) ==
    IF CapturaErroDeLote(q.ent) THEN Avancar(q, "erro")
    ELSE [q EXCEPT !.pc = "raised", !.erro = "store", !.lotes = Append(q.lotes, "erro")]

\* One iteration of the chunk loop whose execute and commit succeed.
LoteOk(p) ==
    /\ imp[p].pc = "loop"
    /\ db' = [db EXCEPT ![imp[p].ent] =
                 Inserir(imp[p].ent, db[imp[p].ent], Lote(imp[p].registros, imp[p].i))]
    /\ imp' = [imp EXCEPT ![p] =
                 Somar(Avancar(imp[p], "ok"), Lote(imp[p].registros, imp[p].i))]
    /\ UNCHANGED <<n_imports, analytics>>

\* A failure that undoes the whole import: the table goes back to what the
\* request found.
LoteErroDesfazTudo(p) ==
    /\ imp[p].pc = "loop"
    /\ db' = [db EXCEPT ![imp[p].ent] = imp[p].antes]
    /\ imp' = [imp EXCEPT ![p] =
                 IF imp[p].ent \in {"cargofuncao", "funcao_cargo"}
                 THEN [imp[p] EXCEPT !.i = imp[p].i + chunk_size,
                                     !.lotes = Append(imp[p].lotes, "erro"),
                                     !.pc = IF imp[p].i + chunk_size >= Len(imp[p].registros)
                                            THEN "returned" ELSE "loop"]
                 ELSE [imp[p] EXCEPT !.pc = "raised", !.erro = "store",
                                     !.lotes = Append(imp[p].lotes, "erro")]]
    /\ UNCHANGED <<n_imports, analytics>>

\* A failure that leaves the first row of its chunk in the store.
LoteErroParcial(p) ==
    /\ imp[p].pc = "loop"
    /\ db' = [db EXCEPT ![imp[p].ent] =
                 Inserir(imp[p].ent, db[imp[p].ent],
                         SubSeq(Lote(imp[p].registros, imp[p].i), 1, 1))]
    /\ imp' = [imp EXCEPT ![p] = AposErro(imp[p])]
    /\ UNCHANGED <<n_imports, analytics>>

\* One iteration whose execute or commit raises: the open transaction is
\* rolled back (by session.rollback(), or by the close of the session when
\* the error leaves the importer), so the store keeps no row of the chunk.
LoteErro(p) ==
    /\ imp[p].pc = "loop"
    /\ imp' = [imp EXCEPT ![p] = AposErro(imp[p])]
    /\ UNCHANGED <<db, n_imports, analytics>>

\* The store as created by init_db: six empty tables.
Init ==
    /\ db = [e \in Entidades |-> <<>>]
    /\ imp = [p \in Procs |-> Parado]
    /\ n_imports = 0
    /\ analytics = SemInstancia

\* A store that earlier imports have loaded: one person and the role catalog
\* of two of the sample rows.
Povoado ==
    [e \in Entidades |->
        IF e = "servidores"
        THEN Inserir(e, <<>>,
                 NormalizarServidores(
                     <<SrvRow(<<"7">>, <<" ", "A", "n", "a">>, <<"m", "e", "c">>)>>).registros)
        ELSE IF e = "cargofuncao"
             THEN Inserir(e, <<>>,
                      NormalizarCargosFuncoes(
                          <<CatRow(<<"A">>, <<"1">>, NaN, <<"T", "e", "c">>),
                            CatRow(<<"S", "e", "m", " ", "I", "n", "f", "o", "r", "m",
                                     "a", "c_cedilha", "a_til", "o">>,
                                   <<"-", "1">>, <<"x">>, <<"A", "u", "x">>)>>).registros)
             ELSE <<>>]

InitPovoado ==
    /\ db = Povoado
    /\ imp = [p \in Procs |-> Parado]
    /\ n_imports = 0
    /\ analytics = SemInstancia

Passo(E, n, repetir) ==
    \E p \in Sequencial : Importar(p, E, n, repetir) \/ LoteOk(p) \/ LoteErro(p)

\* One request of any importer against the loaded store.
Next == Passo(Entidades, MaxRowsLote, FALSE)

Spec == InitPovoado /\ [][Next]_vars

\* Repeated requests, one importer family at a time, from the empty store.
NextServidores == Passo({"servidores"}, MaxRows, TRUE)

SpecServidores == Init /\ [][NextServidores]_vars

NextRegistros == Passo({"remuneracoes", "afastamentos", "observacoes"}, MaxRows, TRUE)

SpecRegistros == Init /\ [][NextRegistros]_vars

NextCargos == Passo({"cargofuncao", "funcao_cargo"}, MaxRows, TRUE)

SpecCargos == Init /\ [][NextCargos]_vars

\* A role-catalog import in session 1 and a role-assignment import in session
\* 2, their steps interleaved in any order.
NextConcorrente ==
    \/ Importar(1, {"cargofuncao"}, MaxRows, FALSE)
    \/ Importar(2, {"funcao_cargo"}, MaxRows, FALSE)
    \/ \E p \in Procs : LoteOk(p) \/ LoteErro(p)

SpecConcorrente == Init /\ [][NextConcorrente]_vars

\* ------------------------------------------------- the analytics requests
PayRowDe(id, ano, final) ==
    [PayRow(id, <<"1">>, <<"1", "0">>, final) EXCEPT !.ANO = ano]

AfaRowDe(id, ano) == [AfaRow(id, <<"3">>, NaN) EXCEPT !.ANO = ano]

RawPagos ==
    {PayRowDe(<<"7">>, <<"2", "0", "2", "3">>, <<"1", "0", ",", "0", "0">>),
     PayRowDe(<<"7">>, <<"2", "0", "2", "3">>, <<"0", ",", "0", "0">>),
     PayRowDe(<<"8">>, <<"2", "0", "2", "3">>, <<"3", "0", ",", "0", "0">>),
     PayRowDe(<<"8">>, <<"2", "0", "2", "3">>, <<"-", "1", "0", ",", "0", "0">>),
     PayRowDe(<<"7">>, <<"2", "0", "2", "4">>, <<"2", "0", ",", "1", "0">>)}

RawAfastados ==
    {AfaRowDe(<<"7">>, <<"2", "0", "2", "3">>),
     AfaRowDe(<<"8">>, <<"2", "0", "2", "3">>),
     AfaRowDe(<<"7">>, <<"2", "0", "2", "4">>)}

RawPessoas ==
    {<<>>,
     <<SrvRow(<<"7">>, <<"A", "n", "a">>, <<"m", "e", "c">>)>>,
     <<SrvRow(<<"7">>, <<"A", "n", "a">>, <<"m", "e", "c">>),
       SrvRow(<<"8">>, <<"E", "d">>, <<"m", "e", "c">>)>>}

\* The table an import of these rows into the empty table leaves.
Carregada(e, linhas) == Inserir(e, <<>>, Normalizar(e, linhas, <<>>).registros)

\* The stored rows the sample rows become, one import each.
Gravados(e, amostras) == UNION {{Carregada(e, <<r>>)[i] : i \in 1..Len(Carregada(e, <<r>>))} :
                                  r \in amostras}

Pessoas == {Carregada("servidores", linhas) : linhas \in RawPessoas}

Pagos == Gravados("remuneracoes", RawPagos)

Afastados == Gravados("afastamentos", RawAfastados)

\* The rows that name a stored person (the foreign key of their table).
Proprios(gravados, servidores) ==
    {r \in gravados : \E j \in 1..Len(servidores) :
                         servidores[j].id_servidor = r.id_servidor}

BancoDe(servidores, remuneracoes, afastamentos) ==
    [e \in Entidades |->
        CASE e = "servidores" -> servidores
          [] e = "remuneracoes" -> remuneracoes
          [] e = "afastamentos" -> afastamentos
          [] OTHER -> <<>>]

\* The stores the reports are checked against: what imports of persons, pay
\* rows and absences have loaded.
Bancos ==
    UNION {{BancoDe(servidores, remuneracoes, afastamentos) :
                remuneracoes \in SeqsUpTo(Proprios(Pagos, servidores), MaxRows),
                afastamentos \in SeqsUpTo(Proprios(Afastados, servidores),
                                          MaxAfastamentos)} :
           servidores \in Pessoas}

InitAnalytics ==
    /\ db \in Bancos
    /\ imp = [p \in Procs |-> Parado]
    /\ n_imports = 0
    /\ analytics = SemInstancia

\* ServidorAnalytics(session): a new engine with an empty list.
NovaInstancia ==
    /\ analytics.inst < MaxInstancias
    /\ analytics' = [SemInstancia EXCEPT !.inst = analytics.inst + 1, !.op = "init"]
    /\ UNCHANGED <<db, imp, n_imports>>

Relatado(a, ano, feito, falha) ==
    [a EXCEPT !.insights = feito.insights, !.op = "relatorio",
              !.anos = Append(a.anos, ano), !.retorno = feito.retorno,
              !.falha = falha]

\* analytics.gerar_relatorio_completo(ano) on the engine at hand, as
\* get_insights, gerar_relatorio_completo and download_excel of the API call
\* it once, and any other holder of the object as often as it likes.
Relatorio(ano) ==
    /\ analytics.op \in {"init", "relatorio"}
    /\ Len(analytics.anos) < MaxRelatorios
    /\ \E falha \in Falhas :
          analytics' = Relatado(analytics, ano,
                           ComGraficos(gerar_relatorio_completo(analytics.insights, db, ano),
                                       graficos_gerados(falha)),
                           falha)
    /\ UNCHANGED <<db, imp, n_imports>>

Comparado(a, ano1, ano2, feito) ==
    [inst |-> a.inst + 1, insights |-> feito.insights, op |-> "comparativo",
     anos |-> <<ano1, ano2>>, limpou |-> TRUE, retorno |-> feito.retorno,
     falha |-> 0]

\* GET /analytics/comparativo/{ano1}/{ano2}: a new engine, the report of
\* each year with the clear between them, and the comparison.  The charts
\* of the two reports, failed or not, leave nothing in the response.
Comparativo(ano1, ano2) ==
    /\ analytics.inst < MaxInstancias
    /\ analytics' = Comparado(analytics, ano1, ano2, comparativo_anos(db, ano1, ano2))
    /\ UNCHANGED <<db, imp, n_imports>>

NextAnalytics ==
    \/ NovaInstancia
    \/ \E ano \in Anos : Relatorio(ano)
    \/ \E ano1 \in Anos : \E ano2 \in Anos : Comparativo(ano1, ano2)

SpecAnalytics == InitAnalytics /\ [][NextAnalytics]_vars

\* ------------------------------------------------ the statistics export
\* GET /analytics/download/estatisticas-csv/{ano}.  Money is in hundredths
\* of a real, as everywhere; a mean, a percentile or a deviation is the
\* float the code computes, kept to the hundredth.
agrupamentos_validos == {"cargo", "orgao", "mes", "servidor"}

\* The values of agrupar_por the requests come with: the valid ones and one
\* that is not.
Agrupamentos == agrupamentos_validos \cup {"regime"}

\* The requests of one behaviour; analytics.anos holds their years.
MaxExportacoes == 1

\* len(resultados) < 10 of _gerar_correlacoes, scaled to the stores checked.
minimo_correlacao == 3

\* statistics.mode of a sample with several most frequent values raises
\* StatisticsError before Python 3.8 and returns the first one met from
\* 3.8 on.  The project pins no version.
Pythons == {"3.7", "3.8"}

NA == <<"N", "/", "A">>

Abs(n) == IF n < 0 THEN 0 - n ELSE n

\* WHERE r.ano = :ano AND r.remuneracao_final IS NOT NULL
\*   AND r.remuneracao_final > 0  (no stored remuneracao_final is NULL: the
\* importer fills 0).
Qualificados(banco, ano) ==
    SelectSeq(banco.remuneracoes, LAMBDA r : r.ano = ano /\ r.remuneracao_final > 0)

RECURSIVE InserirOrdenado(_, _)
InserirOrdenado(v, ordenados) ==
    IF ordenados = <<>> \/ v <= Head(ordenados) THEN <<v>> \o ordenados
    ELSE <<Head(ordenados)>> \o InserirOrdenado(v, Tail(ordenados))

RECURSIVE Ordenar(_)
Ordenar(valores) ==
    IF valores = <<>> THEN <<>>
    ELSE InserirOrdenado(Head(valores), Ordenar(Tail(valores)))

\* SELECT remuneracao_final ... ORDER BY remuneracao_final
Valores(qualificados) ==
    Ordenar([i \in 1..Len(qualificados) |-> qualificados[i].remuneracao_final])

RECURSIVE Soma(_)
Soma(valores) == IF valores = <<>> THEN 0 ELSE Head(valores) + Soma(Tail(valores))

Produtos(xs, ys) == [i \in 1..Len(xs) |-> xs[i] * ys[i]]

\* n * sum(x * y) - sum(x) * sum(y): n * (n - 1) times the sample covariance,
\* and with ys = xs n * (n - 1) times the sample variance.
Covariacao(xs, ys) == Len(xs) * Soma(Produtos(xs, ys)) - Soma(xs) * Soma(ys)

\* The integer nearest to the square root of n >= 0.
RECURSIVE RaizEntre(_, _, _)
RaizEntre(n, lo, hi) ==
    IF lo >= hi THEN lo
    ELSE IF ((lo + hi + 1) \div 2) * ((lo + hi + 1) \div 2) <= n
         THEN RaizEntre(n, (lo + hi + 1) \div 2, hi)
         ELSE RaizEntre(n, lo, (lo + hi + 1) \div 2 - 1)

MaisProxima(n, r) == IF n - r * r > r THEN r + 1 ELSE r

Raiz(n) == MaisProxima(n, RaizEntre(n, 0, Min(n, 46340)))

Sem(erro) == [raise |-> erro, valor |-> 0]

Com(valor) == [raise |-> "", valor |-> valor]

mean(valores) == Arredondar(Soma(valores), Len(valores))

median(valores) ==
    IF Len(valores) % 2 = 1 THEN valores[(Len(valores) + 1) \div 2]
    ELSE Arredondar(valores[Len(valores) \div 2] + valores[Len(valores) \div 2 + 1], 2)

\* statistics.variance, in hundredths of a squared real: it raises with
\* fewer than two values.
variance(valores) ==
    IF Len(valores) < 2 THEN Sem("StatisticsError")
    ELSE Com(Arredondar(Covariacao(valores, valores),
                        100 * Len(valores) * (Len(valores) - 1)))

\* statistics.stdev: the root of the variance, and it raises as it does.
stdev(valores) ==
    IF Len(valores) < 2 THEN Sem("StatisticsError")
    ELSE Com(Raiz(Arredondar(Covariacao(valores, valores),
                             Len(valores) * (Len(valores) - 1))))

Vezes(valores, v) == Cardinality({i \in 1..Len(valores) : valores[i] = v})

MaisFrequentes(valores) ==
    {valores[i] : i \in {j \in 1..Len(valores) :
                            \A k \in 1..Len(valores) :
                                Vezes(valores, valores[k]) <= Vezes(valores, valores[j])}}

\* statistics.mode of the sorted values.
mode(python, valores) ==
    IF Cardinality(MaisFrequentes(valores)) > 1 /\ python = "3.7"
    THEN Sem("StatisticsError")
    ELSE Com(SetMin(MaisFrequentes(valores)))

\* <calculo> if <condicao> else 0, with the guard left out.
SemGuarda(condicao, calculo) == calculo

\* <calculo> if <condicao> else 0
Se(condicao, calculo) == IF condicao THEN calculo ELSE Com(0)

\* statistics.mode(valores) if len(set(valores)) < len(valores) else "N/A":
\* the mode in a set, the empty set for "N/A".
Moda(valores, achada) ==
    IF Cardinality({valores[i] : i \in 1..Len(valores)}) < Len(valores)
    THEN [raise |-> achada.raise, valor |-> {achada.valor}]
    ELSE Com({})

\* (statistics.stdev(valores) / statistics.mean(valores)) * 100, in
\* hundredths of a percent.
CV(desvio, media) ==
    IF desvio.raise # "" THEN desvio ELSE Dividir(desvio.valor, media, 10000)

PrimeiroErro(rs) ==
    IF \A i \in 1..Len(rs) : rs[i].raise = "" THEN ""
    ELSE rs[SetMin({i \in 1..Len(rs) : rs[i].raise # ""})].raise

Descritivas(valores, moda, desvio, variancia, cv) ==
    [raise |-> PrimeiroErro(<<moda, desvio, variancia, cv>>),
     valor |-> [media_remuneracao |-> mean(valores),
                mediana_remuneracao |-> median(valores),
                moda_remuneracao |-> moda.valor,
                desvio_padrao |-> desvio.valor,
                variancia |-> variancia.valor,
                amplitude |-> valores[Len(valores)] - valores[1],
                coeficiente_variacao |-> cv.valor]]

\* resultado["estatisticas_descritivas"] of a non-empty sorted valores.
estatisticas_descritivas(python, valores) ==
    Descritivas(valores,
                Moda(valores, mode(python, valores)),
                Se(Len(valores) > 1, stdev(valores)),
                Se(Len(valores) > 1, variance(valores)),
                Se(Len(valores) > 1 /\ mean(valores) > 0,
                   CV(stdev(valores), mean(valores))))

Percentis == {10, 25, 50, 75, 90, 95, 99}

Interpolar(valores, i, resto) ==
    IF resto = 0 THEN valores[i]
    ELSE Arredondar(100 * valores[i] + resto * (valores[i + 1] - valores[i]), 100)

\* np.percentile(valores, p): linear interpolation between the two values
\* around position (n - 1) * p / 100.
percentile(valores, p) ==
    Interpolar(valores, ((Len(valores) - 1) * p) \div 100 + 1,
               ((Len(valores) - 1) * p) % 100)

\* resultado["quartis_percentis"], keyed by the percentile.
quartis_percentis(valores) == [p \in Percentis |-> percentile(valores, p)]

\* resultado["resumo_executivo"]: COUNT, SUM, AVG, MIN and MAX over the
\* qualifying rows, each "or 0".
resumo_executivo(qualificados) ==
    [servidores_ativos |->
         Cardinality({qualificados[i].id_servidor : i \in 1..Len(qualificados)}),
     total_registros |-> Len(qualificados),
     total_remuneracao |-> SomaFinal(qualificados),
     media_remuneracao |->
         IF qualificados = <<>> THEN 0
         ELSE Arredondar(SomaFinal(qualificados), Len(qualificados)),
     menor_remuneracao |->
         IF qualificados = <<>> THEN 0 ELSE SetMin(Finais(qualificados)),
     maior_remuneracao |->
         IF qualificados = <<>> THEN 0 ELSE SetMax(Finais(qualificados))]

\* LEFT JOIN servidores s ON r.id_servidor = s.id_servidor: the person of
\* the pay row, if stored.
ServidorDe(banco, r) ==
    SelectSeq(banco.servidores, LAMBDA s : s.id_servidor = r.id_servidor)

\* <column> or "N/A"
OuNA(texto) == IF texto = <<>> THEN NA ELSE texto

\* str(row.grupo) if row.grupo else "N/A", of the column the grouping maps
\* to.  A pay row without its person has a NULL group.
Agrupado(r, pessoa, agrupar_por) ==
    CASE agrupar_por = "mes" -> IF r.mes = 0 THEN NA ELSE IntToStr(r.mes)
      [] pessoa = <<>> -> NA
      [] agrupar_por = "cargo" -> OuNA(pessoa[1].descr_cargo)
      [] agrupar_por = "orgao" -> OuNA(pessoa[1].org_exercicio)
      [] agrupar_por = "servidor" ->
             pessoa[1].nome \o <<" ", "(", "I", "D", ":", " ">>
                 \o IntToStr(pessoa[1].id_servidor) \o <<")">>

GrupoDe(banco, r, agrupar_por) == Agrupado(r, ServidorDe(banco, r), agrupar_por)

DoGrupo(linhas) ==
    [servidores_unicos |-> Cardinality({linhas[i].id_servidor : i \in 1..Len(linhas)}),
     total_registros |-> Len(linhas),
     media_remuneracao |-> Arredondar(SomaFinal(linhas), Len(linhas)),
     menor_remuneracao |-> SetMin(Finais(linhas)),
     maior_remuneracao |-> SetMax(Finais(linhas)),
     total_remuneracao |-> SomaFinal(linhas),
     amplitude_salarial |-> SetMax(Finais(linhas)) - SetMin(Finais(linhas))]

\* _gerar_analise_por_grupo: the dictionary of the groups of the qualifying
\* rows (its order, by falling mean, and the limit of 50 are not kept).
analise_por_grupo(banco, qualificados, agrupar_por) ==
    IF agrupar_por \notin agrupamentos_validos THEN <<>>
    ELSE [g \in {GrupoDe(banco, qualificados[i], agrupar_por) :
                    i \in 1..Len(qualificados)} |->
             DoGrupo(SelectSeq(qualificados,
                               LAMBDA r : GrupoDe(banco, r, agrupar_por) = g))]

Detalhe(r, pessoa) ==
    [id_servidor |-> {pessoa[i].id_servidor : i \in 1..Len(pessoa)},
     nome_servidor |-> IF pessoa = <<>> THEN NA ELSE OuNA(pessoa[1].nome),
     cargo |-> IF pessoa = <<>> THEN NA ELSE OuNA(pessoa[1].descr_cargo),
     orgao |-> IF pessoa = <<>> THEN NA ELSE OuNA(pessoa[1].org_exercicio),
     mes |-> r.mes,
     remuneracao_final |-> r.remuneracao_final,
     ano |-> r.ano]

RECURSIVE InserirPorPagamento(_, _)
InserirPorPagamento(r, ordenadas) ==
    IF ordenadas = <<>> \/ r.remuneracao_final >= Head(ordenadas).remuneracao_final
    THEN <<r>> \o ordenadas
    ELSE <<Head(ordenadas)>> \o InserirPorPagamento(r, Tail(ordenadas))

RECURSIVE PorPagamento(_)
PorPagamento(linhas) ==
    IF linhas = <<>> THEN <<>>
    ELSE InserirPorPagamento(Head(linhas), PorPagamento(Tail(linhas)))

\* _gerar_dados_detalhados: every pay row of the year, the highest pay
\* first (rows of equal pay in table order, which the store leaves open;
\* the limit of 1000 is beyond the stores checked).
dados_detalhados(banco, ano) ==
    [i \in 1..Len(DoAno(banco.remuneracoes, ano)) |->
        Detalhe(PorPagamento(DoAno(banco.remuneracoes, ano))[i],
                ServidorDe(banco, PorPagamento(DoAno(banco.remuneracoes, ano))[i]))]

ChaveDaAmostra(r) ==
    [id_servidor |-> r.id_servidor, mes |-> r.mes,
     remuneracao_final |-> r.remuneracao_final]

\* COUNT(a.id_afastamento) of one group: a joined row for each pay row of
\* the group and each absence of its person, year and month.
total_afastamentos(banco, ano, chave) ==
    Cardinality({i \in 1..Len(banco.remuneracoes) :
                    /\ banco.remuneracoes[i].ano = ano
                    /\ ChaveDaAmostra(banco.remuneracoes[i]) = chave})
      * Cardinality({j \in 1..Len(banco.afastamentos) :
                        /\ banco.afastamentos[j].id_servidor = chave.id_servidor
                        /\ banco.afastamentos[j].ano = ano
                        /\ banco.afastamentos[j].mes = chave.mes})

Amostrado(banco, ano, chaves) ==
    [i \in 1..Len(chaves) |->
        [remuneracao_final |-> chaves[i].remuneracao_final,
         mes |-> chaves[i].mes,
         total_afastamentos |-> total_afastamentos(banco, ano, chaves[i])]]

\* The rows of the correlation query: one for each (id_servidor, mes,
\* remuneracao_final) among the pay rows of the year.
Amostra(banco, ano) ==
    Amostrado(banco, ano,
              DropDuplicates(
                  [i \in 1..Len(DoAno(banco.remuneracoes, ano)) |->
                      ChaveDaAmostra(DoAno(banco.remuneracoes, ano)[i])],
                  [i \in 1..Len(DoAno(banco.remuneracoes, ano)) |->
                      ChaveDaAmostra(DoAno(banco.remuneracoes, ano)[i])]))

Limitado(c) == IF c > 10000 THEN 10000 ELSE IF c < 0 - 10000 THEN 0 - 10000 ELSE c

\* np.corrcoef(xs, ys)[0, 1] in ten-thousandths, the digits the file shows:
\* the covariance over the product of the two deviations, NaN when one of
\* them is 0.
corrcoef(xs, ys) ==
    IF Covariacao(xs, xs) = 0 \/ Covariacao(ys, ys) = 0
    THEN [nan |-> TRUE, valor |-> 0]
    ELSE [nan |-> FALSE,
          valor |-> Limitado(Quociente(
                        Quociente(100 * Covariacao(xs, ys), Raiz(Covariacao(xs, xs)))
                            * 10000,
                        Raiz(10000 * Covariacao(ys, ys))))]

\* A correlation step without the test of the sample size.
NuncaPoucas(amostra) == FALSE

\* if len(resultados) < 10
PoucasLinhas(amostra) == Len(amostra) < minimo_correlacao

\* if len(set(<second variable>)) > 1: ... if not np.isnan(...): append
Par(variavel2, xs, ys) ==
    IF Cardinality({ys[i] : i \in 1..Len(ys)}) > 1 /\ ~corrcoef(xs, ys).nan
    THEN <<[variavel1 |-> "Remuneracao", variavel2 |-> variavel2,
            coeficiente |-> corrcoef(xs, ys).valor]>>
    ELSE <<>>

Pares(amostra) ==
    Par("Mes", [i \in 1..Len(amostra) |-> amostra[i].remuneracao_final],
               [i \in 1..Len(amostra) |-> amostra[i].mes])
      \o Par("Afastamentos",
             [i \in 1..Len(amostra) |-> amostra[i].remuneracao_final],
             [i \in 1..Len(amostra) |-> amostra[i].total_afastamentos])

\* The try block of _gerar_correlacoes: erro is an exception anywhere in
\* it (the query failing, say).
Correlacionar(erro, amostra) ==
    IF erro THEN [raise |-> "Exception", valor |-> <<>>]
    ELSE IF PoucasLinhas(amostra) THEN Com(<<>>)
    ELSE Com(Pares(amostra))

\* _gerar_correlacoes: except Exception: ... return []
gerar_correlacoes(erro, amostra) ==
    IF Correlacionar(erro, amostra).raise # "" THEN <<>>
    ELSE Correlacionar(erro, amostra).valor

\* The two keys set only under "if resumo_result.total_registros > 0" and
\* "if valores".
Avancadas(python, valores) ==
    IF valores = <<>> THEN Com(<<>>)
    ELSE [raise |-> estatisticas_descritivas(python, valores).raise,
          valor |-> ("estatisticas_descritivas"
                         :> estatisticas_descritivas(python, valores).valor)
                    @@ ("quartis_percentis" :> quartis_percentis(valores))]

Reunido(avancadas, qualificados, grupos, detalhes, correlacoes) ==
    IF avancadas.raise # "" THEN [raise |-> avancadas.raise, valor |-> <<>>]
    ELSE Com(("resumo_executivo" :> resumo_executivo(qualificados))
             @@ ("total_registros" :> Len(qualificados))
             @@ avancadas.valor
             @@ ("analise_por_grupo" :> grupos)
             @@ detalhes
             @@ ("correlacoes" :> correlacoes))

\* _gerar_estatisticas_completas: the dictionary, or the exception that
\* left it.
gerar_estatisticas_completas(python, erro, banco, ano, agrupar_por, incluir_detalhes) ==
    Reunido(Avancadas(python, Valores(Qualificados(banco, ano))),
            Qualificados(banco, ano),
            analise_por_grupo(banco, Qualificados(banco, ano), agrupar_por),
            IF incluir_detalhes
            THEN "dados_detalhados" :> dados_detalhados(banco, ano)
            ELSE <<>>,
            gerar_correlacoes(erro, Amostra(banco, ano)))

\* _interpretar_correlacao of a coefficient in ten-thousandths: the two
\* words of "Correlacao {intensidade} {direcao}".
interpretar_correlacao(coeficiente) ==
    [intensidade |->
         IF Abs(coeficiente) >= 9000 THEN "muito forte"
         ELSE IF Abs(coeficiente) >= 7000 THEN "forte"
         ELSE IF Abs(coeficiente) >= 5000 THEN "moderada"
         ELSE IF Abs(coeficiente) >= 3000 THEN "fraca"
         ELSE "muito fraca",
     direcao |-> IF coeficiente > 0 THEN "positiva" ELSE "negativa"]

\* A section of the file: the row that opens it and, of the correlations,
\* the rows under it (the rows of the other sections are the values of the
\* dictionary, formatted).
Secao(titulo, linhas) == [titulo |-> titulo, linhas |-> linhas]

LinhasDeCorrelacao(correlacoes) ==
    [i \in 1..Len(correlacoes) |->
        [variavel1 |-> correlacoes[i].variavel1,
         variavel2 |-> correlacoes[i].variavel2,
         coeficiente |-> correlacoes[i].coeficiente,
         interpretacao |-> interpretar_correlacao(correlacoes[i].coeficiente)]]

\* A renderer that writes the detailed rows whatever the flag.
DetalhesSempre(dados, incluir_detalhes) == <<Secao("DADOS DETALHADOS", <<>>)>>

\* if incluir_detalhes and "dados_detalhados" in dados_estatisticos
SecaoDeDetalhes(dados, incluir_detalhes) ==
    IF incluir_detalhes /\ "dados_detalhados" \in DOMAIN dados
    THEN <<Secao("DADOS DETALHADOS", <<>>)>>
    ELSE <<>>

\* The rows written up to dados_estatisticos["estatisticas_descritivas"].
AteDescritivas ==
    <<Secao("RELATORIO ESTATISTICO", <<>>), Secao("RESUMO EXECUTIVO", <<>>),
      Secao("ESTATISTICAS DESCRITIVAS", <<>>)>>

\* The body of "with open(...) as csvfile": the sections written, and the
\* KeyError of the lookup of a key the dictionary lacks.
Escrever(dados, incluir_detalhes) ==
    IF "estatisticas_descritivas" \notin DOMAIN dados
    THEN [raise |-> "KeyError", arquivo |-> AteDescritivas]
    ELSE [raise |-> "",
          arquivo |->
              AteDescritivas
                \o <<Secao("ANALISE POR", <<>>)>>
                \o (IF "quartis_percentis" \in DOMAIN dados
                    THEN <<Secao("ANALISE DE QUARTIS E PERCENTIS", <<>>)>> ELSE <<>>)
                \o SecaoDeDetalhes(dados, incluir_detalhes)
                \o (IF "correlacoes" \in DOMAIN dados
                    THEN <<Secao("ANALISE DE CORRELACOES",
                                 LinhasDeCorrelacao(dados["correlacoes"]))>>
                    ELSE <<>>)
                \o <<Secao("OBSERVACOES E METODOLOGIA", <<>>)>>]

Resposta(status, detail, calculou, criado, dados, arquivo) ==
    [status |-> status, detail |-> detail, calculou |-> calculou,
     criado |-> criado, dados |-> dados, arquivo |-> arquivo]

\* except Exception as e: raise HTTPException(status_code=500, ...), which
\* every exception of the try block reaches, the HTTPException of the
\* validation among them.
Excepcionado(status, detail, calculou, criado, dados, arquivo) ==
    Resposta(500, detail, calculou, criado, dados, arquivo)

Gerado(estatisticas, escrito) ==
    IF estatisticas.raise # ""
    THEN Excepcionado(500, estatisticas.raise, TRUE, FALSE, <<>>, <<>>)
    ELSE IF escrito.raise # ""
    THEN Excepcionado(500, escrito.raise, TRUE, TRUE, estatisticas.valor, escrito.arquivo)
    ELSE Resposta(200, "", TRUE, TRUE, estatisticas.valor, escrito.arquivo)

GeradoDe(estatisticas, incluir_detalhes) ==
    Gerado(estatisticas,
           IF estatisticas.raise # "" THEN [raise |-> "", arquivo |-> <<>>]
           ELSE Escrever(estatisticas.valor, incluir_detalhes))

\* download_estatisticas_csv: the response, whether the statistics were
\* computed, whether the file was created, and what was written to it.
download_estatisticas_csv(python, erro, banco, ano, incluir_detalhes, agrupar_por) ==
    IF agrupar_por \notin agrupamentos_validos
    THEN Excepcionado(400, "Agrupamento invalido", FALSE, FALSE, <<>>, <<>>)
    ELSE GeradoDe(gerar_estatisticas_completas(python, erro, banco, ano,
                                               agrupar_por, incluir_detalhes),
                  incluir_detalhes)

PayRowDoMes(id, ano, mes, final) == [PayRowDe(id, ano, final) EXCEPT !.MES = mes]

RawMensais ==
    {PayRowDoMes(<<"7">>, <<"2", "0", "2", "3">>, <<"1">>, <<"1", "0", ",", "0", "0">>),
     PayRowDoMes(<<"7">>, <<"2", "0", "2", "3">>, <<"2">>, <<"3", "0", ",", "0", "0">>),
     PayRowDoMes(<<"7">>, <<"2", "0", "2", "3">>, <<"3">>, <<"1", "0", ",", "0", "0">>),
     PayRowDoMes(<<"8">>, <<"2", "0", "2", "3">>, <<"3">>, <<"2", "0", ",", "1", "0">>),
     PayRowDoMes(<<"8">>, <<"2", "0", "2", "4">>, <<"1">>, <<"0", ",", "0", "0">>)}

Mensais == Gravados("remuneracoes", RawMensais)

\* The stores the exports are checked against.
BancosMensais ==
    UNION {{BancoDe(servidores, remuneracoes, afastamentos) :
                remuneracoes \in SeqsUpTo(Proprios(Mensais, servidores), MaxRows),
                afastamentos \in SeqsUpTo(Proprios(Afastados, servidores),
                                          MaxAfastamentos)} :
           servidores \in Pessoas}

InitEstatisticas ==
    /\ db \in BancosMensais
    /\ imp = [p \in Procs |-> Parado]
    /\ n_imports = 0
    /\ analytics = SemInstancia

Exportado(a, ano, incluir_detalhes, agrupar_por, erro, resposta) ==
    [SemInstancia EXCEPT !.op = "estatisticas", !.anos = Append(a.anos, ano),
                         !.retorno = [pedido |-> [ano |-> ano,
                                                  incluir_detalhes |-> incluir_detalhes,
                                                  agrupar_por |-> agrupar_por],
                                      erro |-> erro,
                                      resposta |-> resposta]]

\* One request of the export: it reads the store and leaves a response and,
\* perhaps, a file.  No request reads what an earlier one left.
Exportar(ano, incluir_detalhes, agrupar_por) ==
    /\ Len(analytics.anos) < MaxExportacoes
    /\ \E python \in Pythons : \E erro \in BOOLEAN :
          analytics' = Exportado(analytics, ano, incluir_detalhes, agrupar_por, erro,
                           download_estatisticas_csv(python, erro, db, ano,
                                                     incluir_detalhes, agrupar_por))
    /\ UNCHANGED <<db, imp, n_imports>>

NextEstatisticas ==
    \E ano \in Anos : \E incluir_detalhes \in BOOLEAN :
        \E agrupar_por \in Agrupamentos :
            Exportar(ano, incluir_detalhes, agrupar_por)

SpecEstatisticas == InitEstatisticas /\ [][NextEstatisticas]_vars

\* ------------------------------------------------------------ properties
TodosOk(q) == \A k \in 1..Len(q.lotes) : q.lotes[k] = "ok"

AlgumErro(q) == \E k \in 1..Len(q.lotes) : q.lotes[k] = "erro"

\* The k-th chunk of the records of q.
LoteK(q, k) == Lote(q.registros, (k - 1) * chunk_size)

\* The table of q after its first k chunks: what the request found, then the
\* rows of each committed chunk in turn.
RECURSIVE AposLotes(_, _)
AposLotes(q, k) ==
    IF k = 0 THEN q.antes
    ELSE IF q.lotes[k] = "ok"
         THEN Inserir(q.ent, AposLotes(q, k - 1), LoteK(q, k))
         ELSE AposLotes(q, k - 1)

\* The sizes of the committed chunks among the first k, added up.
RECURSIVE Confirmados(_, _)
Confirmados(q, k) ==
    IF k = 0 THEN 0
    ELSE Confirmados(q, k - 1) + (IF q.lotes[k] = "ok" THEN Len(LoteK(q, k)) ELSE 0)

\* C1: in every importer, after the insert of a chunk fails at the store the
\* loader goes on with the later chunks and the call returns a count: an
\* import with a failed chunk is in its loop or has returned, never ended by
\* the exception.
C1_FailedChunkDoesNotEndTheImport ==
    \A p \in Procs :
        AlgumErro(imp[p]) => imp[p].pc \in {"loop", "returned"} /\ imp[p].erro = ""

\* C2: whatever chunk fails, the table holds what the request found plus the
\* rows of every chunk committed so far, those before a failed chunk
\* included: a failure takes back no committed chunk.
C2_CommittedChunksStay ==
    \A p \in Procs :
        imp[p].pc # "idle" =>
            db[imp[p].ent] = AposLotes(imp[p], Len(imp[p].lotes))

\* A chunk failed after an earlier chunk was committed, and rows of the
\* import are in the store.
C2_Witness ==
    \E p \in Procs : \E k \in 2..Len(imp[p].lotes) :
        /\ imp[p].lotes[k] = "erro"
        /\ imp[p].lotes[k - 1] = "ok"
        /\ Len(db[imp[p].ent]) > Len(imp[p].antes)

\* C3: the count is the sum of the sizes of the committed chunks; it never
\* exceeds the number of normalized records, and a returned import none of
\* whose chunks failed counts them all, the rows the store ignored on
\* conflict included.
C3_CountIsCommittedRows ==
    \A p \in Procs :
        /\ imp[p].total_processados = Confirmados(imp[p], Len(imp[p].lotes))
        /\ imp[p].total_processados <= Len(imp[p].registros)
        /\ imp[p].pc = "returned" /\ TodosOk(imp[p])
              => imp[p].total_processados = Len(imp[p].registros)

\* A servers import returned a count larger than the number of rows it
\* added: the store ignored a row the count includes.
C3_Witness ==
    \E p \in Procs :
        /\ imp[p].pc = "returned"
        /\ imp[p].ent = "servidores"
        /\ TodosOk(imp[p])
        /\ imp[p].total_processados > Len(db.servidores) - Len(imp[p].antes)

\* C4: an import of a table that lacks an expected column ends with the
\* schema error before any record is built or submitted: no chunk is
\* executed or committed and the store is what it was.
C4_MissingColumnAborts ==
    \A p \in Procs :
        imp[p].pc # "idle" /\ imp[p].arquivo.ausente # "" =>
            /\ imp[p].pc = "raised"
            /\ imp[p].erro = "coluna"
            /\ imp[p].registros = <<>>
            /\ imp[p].lotes = <<>>
            /\ imp[p].total_processados = 0
            /\ db = Povoado

\* A role-assignment upload without one of its columns was refused.
C4_Witness ==
    \E p \in Procs :
        /\ imp[p].ent = "funcao_cargo"
        /\ imp[p].arquivo.ausente = "DESCRICAO_CARGO"
        /\ imp[p].arquivo.linhas # <<>>
        /\ imp[p].pc = "raised"

\* C5: a server import changes no Person row the store already had: every
\* row the request found is still there, field for field, and is the only
\* row of its id.
C5_ExistingPersonUnchanged ==
    \A p \in Procs :
        imp[p].ent = "servidores" =>
            \A i \in 1..Len(imp[p].antes) :
                /\ \E j \in 1..Len(db.servidores) : db.servidores[j] = imp[p].antes[i]
                /\ \A j \in 1..Len(db.servidores) :
                      db.servidores[j].id_servidor = imp[p].antes[i].id_servidor
                          => db.servidores[j] = imp[p].antes[i]

\* A complete servers import submitted, for an id already stored, a record
\* with other values.
C5_Witness ==
    \E p \in Procs :
        /\ imp[p].ent = "servidores"
        /\ imp[p].pc = "returned"
        /\ TodosOk(imp[p])
        /\ \E i \in 1..Len(imp[p].antes) : \E k \in 1..Len(imp[p].registros) :
              /\ imp[p].registros[k].id_servidor = imp[p].antes[i].id_servidor
              /\ imp[p].registros[k] # imp[p].antes[i]

\* The first record of the batch with the id of r.
PrimeiroDoId(registros, r) ==
    registros[SetMin({k \in 1..Len(registros) :
                         registros[k].id_servidor = r.id_servidor})]

\* C6: a second import of the same servers file leaves the Person rows the
\* first one left; the store never holds two Person rows of one id; and of the
\* records of one batch that share an id, the first is the one stored.
C6_ServersImportIdempotent ==
    /\ \A i, j \in 1..Len(db.servidores) :
          db.servidores[i].id_servidor = db.servidores[j].id_servidor => i = j
    /\ \A p \in Procs :
          imp[p].ent = "servidores" =>
              /\ imp[p].seguidas >= 2 => db.servidores = imp[p].antes
              /\ \A j \in (Len(imp[p].antes) + 1)..Len(db.servidores) :
                    db.servidores[j] = PrimeiroDoId(imp[p].registros, db.servidores[j])

\* The same servers file, with two different records of one id, was imported
\* twice in full, and the first of the two records is stored.
C6_Witness ==
    \E p \in Procs :
        /\ imp[p].ent = "servidores"
        /\ imp[p].seguidas = 2
        /\ imp[p].pc = "returned"
        /\ TodosOk(imp[p])
        /\ \E k, l \in 1..Len(imp[p].registros) :
              /\ k < l
              /\ imp[p].registros[k].id_servidor = imp[p].registros[l].id_servidor
              /\ imp[p].registros[k] # imp[p].registros[l]
              /\ \E j \in 1..Len(db.servidores) : db.servidores[j] = imp[p].registros[k]

\* The composite key of a stored catalog row.
TuplaDoCargo(c) ==
    <<c.classe_cargo, c.referencia_cargo, c.padrao_cargo, c.nivel_cargo,
      c.funcao, c.descricao_cargo, c.nivel_funcao>>

ComTupla(tabela, t) == Cardinality({i \in 1..Len(tabela) : TuplaDoCargo(tabela[i]) = t})

\* C7: a second import of the same catalog file leaves, for every composite
\* key, the number of rows the first one left, and no composite tuple is
\* stored more than once.
C7_CatalogImportIdempotent ==
    /\ \A i, j \in 1..Len(db.cargofuncao) :
          TuplaDoCargo(db.cargofuncao[i]) = TuplaDoCargo(db.cargofuncao[j]) => i = j
    /\ \A p \in Procs :
          imp[p].ent = "cargofuncao" /\ imp[p].seguidas >= 2 =>
              \A i \in 1..Len(db.cargofuncao) :
                  ComTupla(db.cargofuncao, TuplaDoCargo(db.cargofuncao[i]))
                    = ComTupla(imp[p].antes, TuplaDoCargo(db.cargofuncao[i]))

\* C8: after n complete imports in a row of the same pay, absence or remark
\* file, every normalized record of the file is stored n times more than
\* before the first of them (n times, from the empty table).
C8_ReimportDuplicates ==
    \A p \in Procs :
        /\ imp[p].ent \in {"remuneracoes", "afastamentos", "observacoes"}
        /\ imp[p].pc = "returned"
        /\ TodosOk(imp[p])
        => \A k \in 1..Len(imp[p].registros) :
              Count(db[imp[p].ent], imp[p].registros[k])
                = Count(imp[p].base, imp[p].registros[k])
                    + imp[p].seguidas * Count(imp[p].registros, imp[p].registros[k])

\* The same file of records was imported twice in full into an empty table,
\* which now holds every record of it twice.
C8_Witness ==
    \E p \in Procs :
        /\ imp[p].ent \in {"remuneracoes", "afastamentos", "observacoes"}
        /\ imp[p].pc = "returned"
        /\ TodosOk(imp[p])
        /\ imp[p].seguidas = 2
        /\ imp[p].base = <<>>
        /\ imp[p].registros # <<>>
        /\ Len(db[imp[p].ent]) = 2 * Len(imp[p].registros)

\* The rows of an assignment upload that reach the lookup.
Validas(q) == LinhasDeVinculo(q.arquivo.linhas)

\* The catalog snapshot has an entry with the tuple cleaned from the row.
Casa(row, todos_cargos) ==
    \E i \in 1..Len(todos_cargos) : ChaveDoCargo(todos_cargos[i]) = ChaveDaLinha(row)

Casadas(q) == SelectSeq(Validas(q), LAMBDA r : Casa(r, q.todos_cargos))

NaoCasadas(q) == SelectSeq(Validas(q), LAMBDA r : ~Casa(r, q.todos_cargos))

\* An assignment import that got as far as the lookup of every row.
Procurou(q) == q.ent = "funcao_cargo" /\ q.pc # "idle" /\ q.erro = ""

\* C9: the records the role-assignment importer emits are, in order, one for
\* each row whose cleaned (class, standard, level, description) tuple is the
\* tuple of an entry of the snapshot (and none for any other row), each with
\* the person of its row and the id of such an entry; and every assignment
\* the import inserts is one of these records.
C9_AssignmentCarriesMatchedCatalogId ==
    \A p \in Procs :
        Procurou(imp[p]) =>
            /\ Len(imp[p].registros) = Len(Casadas(imp[p]))
            /\ \A k \in 1..Len(imp[p].registros) :
                  /\ imp[p].registros[k].id_servidor
                       = ToInt(Casadas(imp[p])[k].Id_SERVIDOR_PORTAL)
                  /\ \E i \in 1..Len(imp[p].todos_cargos) :
                        /\ imp[p].todos_cargos[i].id_cargo_funcao
                             = imp[p].registros[k].id_cargo_funcao
                        /\ ChaveDoCargo(imp[p].todos_cargos[i])
                             = ChaveDaLinha(Casadas(imp[p])[k])
            /\ \A j \in (Len(imp[p].antes) + 1)..Len(db.funcao_cargo) :
                  \E k \in 1..Len(imp[p].registros) :
                      db.funcao_cargo[j] = imp[p].registros[k]

\* An assignment import inserted rows that point at two different entries of
\* the catalog it read.
C9_Witness ==
    \E p \in Procs :
        /\ Procurou(imp[p])
        /\ Len(imp[p].todos_cargos) >= 2
        /\ \E j, l \in (Len(imp[p].antes) + 1)..Len(db.funcao_cargo) :
              db.funcao_cargo[j].id_cargo_funcao # db.funcao_cargo[l].id_cargo_funcao

EhSkip(aviso) == aviso[1] = "SKIP"

\* C10: each row that matches no catalog entry is dropped with one warning
\* of its own and yields no record, and the import goes on: the matching rows
\* are submitted and, their chunks committed, are the rows added; when no row
\* matches, the import returns 0 and executes no insert.
C10_UnmatchedRowSkipped ==
    \A p \in Procs :
        Procurou(imp[p]) =>
            /\ SelectSeq(imp[p].avisos, EhSkip)
                 = [k \in 1..Len(NaoCasadas(imp[p])) |-> AvisoSkip(NaoCasadas(imp[p])[k])]
            /\ Len(imp[p].registros) = Len(Validas(imp[p])) - Len(NaoCasadas(imp[p]))
            /\ imp[p].pc \in {"loop", "returned"}
            /\ Len(db.funcao_cargo) - Len(imp[p].antes) <= Len(imp[p].registros)
            /\ imp[p].pc = "returned" /\ TodosOk(imp[p])
                  => db.funcao_cargo = imp[p].antes \o imp[p].registros
            /\ Casadas(imp[p]) = <<>>
                  => /\ imp[p].pc = "returned"
                     /\ imp[p].total_processados = 0
                     /\ imp[p].lotes = <<>>
                     /\ db.funcao_cargo = imp[p].antes

\* An upload with one row that matches no entry and one that matches was
\* imported: one warning, one row added.
C10_Witness ==
    \E p \in Procs :
        /\ Procurou(imp[p])
        /\ imp[p].pc = "returned"
        /\ Len(NaoCasadas(imp[p])) = 1
        /\ Len(SelectSeq(imp[p].avisos, EhSkip)) = 1
        /\ Len(imp[p].registros) = 1
        /\ db.funcao_cargo = imp[p].antes \o imp[p].registros

\* The rows of an assignment upload whose tuple is that of a catalog entry
\* stored by now but not of any entry of the snapshot.
Tardias(q) == SelectSeq(NaoCasadas(q), LAMBDA r : Casa(r, db.cargofuncao))

\* The session takes its snapshot of the catalog in this step.
TiraSnapshot(p) ==
    /\ imp[p].pc = "idle"
    /\ imp'[p].ent = "funcao_cargo"
    /\ imp'[p].erro = ""

\* C11: with a catalog import and an assignment import side by side, the
\* assignment import sees exactly the catalog entries committed when it reads
\* the catalog: the snapshot is the catalog of that moment, every row whose
\* tuple is in the snapshot yields a record with the id of a snapshot entry,
\* and every row whose tuple only a later-committed entry carries is dropped
\* with its warning.
C11_SnapshotFixesVisibleCatalog ==
    /\ [][\A p \in Procs : TiraSnapshot(p) => imp'[p].todos_cargos = db.cargofuncao]_vars
    /\ [](\A p \in Procs :
            Procurou(imp[p]) =>
                /\ Len(imp[p].todos_cargos) <= Len(db.cargofuncao)
                /\ imp[p].todos_cargos
                     = SubSeq(db.cargofuncao, 1, Len(imp[p].todos_cargos))
                /\ \A k \in 1..Len(Casadas(imp[p])) :
                      \E j \in 1..Len(imp[p].registros) :
                          /\ imp[p].registros[j].id_servidor
                               = ToInt(Casadas(imp[p])[k].Id_SERVIDOR_PORTAL)
                          /\ imp[p].registros[j].id_cargo_funcao
                               \in 1..Len(imp[p].todos_cargos)
                /\ \A j \in 1..Len(imp[p].registros) :
                      imp[p].registros[j].id_cargo_funcao \in 1..Len(imp[p].todos_cargos)
                /\ Len(imp[p].registros) + Len(NaoCasadas(imp[p])) = Len(Validas(imp[p]))
                /\ \A k \in 1..Len(Tardias(imp[p])) :
                      \E a \in 1..Len(imp[p].avisos) :
                          imp[p].avisos[a] = AvisoSkip(Tardias(imp[p])[k]))

\* The assignment import took its snapshot between two chunks of the catalog
\* import: it emitted a record for a row of an entry committed before, and
\* dropped a row of an entry committed after.
C11_Witness ==
    /\ imp[1].ent = "cargofuncao"
    /\ imp[2].pc = "returned"
    /\ Procurou(imp[2])
    /\ imp[2].todos_cargos # <<>>
    /\ imp[2].registros # <<>>
    /\ Tardias(imp[2]) # <<>>
    /\ Len(db.funcao_cargo) = Len(imp[2].registros)

\* The mandatory key fields of each upload.
CamposChave(e) ==
    CASE e = "servidores" -> {"Id_SERVIDOR_PORTAL"}
      [] e \in {"remuneracoes", "afastamentos"} -> {"Id_SERVIDOR_PORTAL", "ANO", "MES"}
      [] e = "observacoes" -> {"Id_SERVIDOR_PORTAL", "ANO", "MES", "OBSERVACAO"}
      [] e = "cargofuncao" -> {}
      [] e = "funcao_cargo" -> {"Id_SERVIDOR_PORTAL", "DESCRICAO_CARGO"}

FaltaChave(e, r) == \E c \in CamposChave(e) : r[c] = NaN

\* The upload of q without the rows that lack a key field.
SemFaltantes(q) ==
    [ausente |-> q.arquivo.ausente,
     linhas |-> SelectSeq(q.arquivo.linhas, LAMBDA r : ~FaltaChave(q.ent, r))]

\* C12: in every importer a row that lacks a mandatory key field is dropped
\* and nothing else happens: the import raises no error for it, and its
\* records are those of the same upload without such rows.
C12_RowWithoutKeyDropped ==
    \A p \in Procs :
        imp[p].pc # "idle" /\ imp[p].arquivo.ausente = "" =>
            /\ imp[p].erro \in {"", "store"}
            /\ imp[p].registros
                 = Preparar(imp[p].ent, SemFaltantes(imp[p]), imp[p].todos_cargos).registros

\* The rows of the upload of q that have every key field and an id of
\* decimal digits only.
SoDigitos(q) ==
    SelectSeq(q.arquivo.linhas,
              LAMBDA r : ~FaltaChave(q.ent, r) /\ IsDecimal(r.Id_SERVIDOR_PORTAL))

\* C13: the normalizer keeps exactly the rows whose id is made of decimal
\* digits only, each with that id as an integer, and excludes every row whose
\* id has another character without failing the import.
C13_NonDigitIdExcluded ==
    \A p \in Procs :
        /\ imp[p].ent \in {"remuneracoes", "afastamentos", "observacoes"}
        /\ imp[p].pc # "idle"
        /\ imp[p].arquivo.ausente = ""
        => /\ imp[p].erro \in {"", "store"}
           /\ Len(imp[p].registros) = Len(SoDigitos(imp[p]))
           /\ \A k \in 1..Len(imp[p].registros) :
                 imp[p].registros[k].id_servidor
                   = ToInt(SoDigitos(imp[p])[k].Id_SERVIDOR_PORTAL)

\* The cleaned batch of a catalog upload.
CargosLimpos(linhas) == [i \in 1..Len(linhas) |-> LimparCargo(linhas[i])]

\* The first row of each distinct composite key (the seven cleaned fields),
\* in the order of first appearance.
PrimeirosPorTupla(limpos) == DropDuplicates(limpos, limpos)

\* C14: the catalog deduplicator outputs, for each distinct composite key of
\* the cleaned batch, the first row with that key, in the order the keys
\* first appear: no two output rows share a key and no key is lost.
C14_FirstRowOfEachKey ==
    \A p \in Procs :
        /\ imp[p].ent = "cargofuncao"
        /\ imp[p].pc # "idle"
        /\ imp[p].arquivo.ausente = ""
        => imp[p].registros = PrimeirosPorTupla(CargosLimpos(imp[p].arquivo.linhas))

\* C15: every pay record in the store has four non-negative monetary values
\* and a month from 1 to 12, whatever the uploaded rows held.
C15_PayRecordInvariant ==
    \A i \in 1..Len(db.remuneracoes) :
        /\ db.remuneracoes[i].remuneracao >= 0
        /\ db.remuneracoes[i].irrf >= 0
        /\ db.remuneracoes[i].pss_rpgs >= 0
        /\ db.remuneracoes[i].remuneracao_final >= 0
        /\ db.remuneracoes[i].mes \in 1..12

\* A text that is a sentinel token once trimmed, case ignored: the empty
\* string, "-1", or a variant of "sem informação".
EhSentinela(t) == Lower(Strip(t)) \in Sentinelas

\* The cleaned text fields of a record of each importer, an absent field left
\* out.
TextosLimpos(e, r) ==
    CASE e = "servidores" ->
           {r.nome, r.cpf, r.descr_cargo, r.org_superior, r.org_exercicio,
            r.regime, r.jornada_trabalho}
      [] e = "cargofuncao" ->
           r.classe_cargo \cup r.funcao \cup {r.descricao_cargo}
      [] OTHER -> {}

\* C16: in the server and role-catalog importers (as in the role-assignment
\* importer's limpar_valor) no cleaned text field holds a sentinel token: each
\* was mapped to an absent value.
C16_SentinelsBecomeAbsent ==
    /\ \A t \in Sentinelas :
          /\ limpar_valor(t, "classe_cargo") = NULL
          /\ limpar_valor(t, "descricao_cargo") = NULL
    /\ \A p \in Procs :
          \A k \in 1..Len(imp[p].registros) :
              \A t \in TextosLimpos(imp[p].ent, imp[p].registros[k]) : ~EhSentinela(t)

\* ------------------------------------------------------------------ C17
\* s is an initial part of t.
Prefixo(s, t) == Len(s) <= Len(t) /\ SubSeq(t, 1, Len(s)) = s

\* The insights of one report of each of these years on a list that starts
\* empty each time, one report after the other.
RECURSIVE DasCorridas(_, _)
DasCorridas(banco, anos) ==
    IF anos = <<>> THEN <<>>
    ELSE gerar_relatorio_completo(<<>>, banco, Head(anos)).insights
             \o DasCorridas(banco, Tail(anos))

\* C17: the insight list of one ServidorAnalytics instance only grows at its
\* end: a step that keeps the instance keeps every insight it held, in
\* place, and after k reports with no clear by the caller the list is the
\* insights of the k runs, one run after the other in call order.
C17_InsightListAppendOnly ==
    /\ [][analytics'.inst = analytics.inst
              => Prefixo(analytics.insights, analytics'.insights)]_vars
    /\ [](analytics.op = "relatorio" /\ ~analytics.limpou
              => analytics.insights = DasCorridas(db, analytics.anos))

\* Two reports of different years on one instance, the first of which left
\* more than one insight.
C17_Witness ==
    /\ analytics.op = "relatorio"
    /\ Len(analytics.anos) = 2
    /\ analytics.anos[1] # analytics.anos[2]
    /\ Len(DasCorridas(db, <<analytics.anos[1]>>)) > 1
    /\ Len(analytics.insights) > Len(DasCorridas(db, <<analytics.anos[1]>>))

\* ------------------------------------------------------------------ C18
\* C18: when comparativo_anos has run the report of its second year, the
\* list of its engine holds the insights of that report and no other: every
\* insight in it carries the second year as its period.
C18_ComparativeKeepsSecondYearOnly ==
    analytics.op = "comparativo"
        => /\ analytics.insights = DasCorridas(db, <<analytics.anos[2]>>)
           /\ \A i \in 1..Len(analytics.insights) :
                  analytics.insights[i].periodo = IntToStr(analytics.anos[2])

\* A comparison of two different years, each of which has pay rows, so that
\* the first report left all three of its insights to clear.
C18_Witness ==
    /\ analytics.op = "comparativo"
    /\ analytics.anos[1] # analytics.anos[2]
    /\ Len(DasCorridas(db, <<analytics.anos[1]>>)) = 3
    /\ Len(analytics.insights) = 3

\* ------------------------------------------------------------------ C19

\* The mean pay of a year as its summary reports it, in hundredths.
MediaDoAno(banco, ano) == media_remuneracao(DoAno(banco.remuneracoes, ano))

\* v is num / den to the nearest unit.
MaisProximo(v, num, den) == 2 * Abs(v * den - num) <= Abs(den)

\* C19: the percentage variation of the comparative report is
\* (mean pay of year 2 - mean pay of year 1) / (mean pay of year 1) x 100,
\* to the hundredth the response carries; when the mean pay of year 1 is 0
\* the request ends in the generic failure (status 500) and returns no
\* comparison at all.
C19_VariationOrGenericFailure ==
    analytics.op = "comparativo"
        => IF MediaDoAno(db, analytics.anos[1]) = 0
           THEN analytics.retorno.status = 500 /\ analytics.retorno.corpo = <<>>
           ELSE /\ analytics.retorno.status = 200
                /\ Len(analytics.retorno.corpo) = 1
                /\ MaisProximo(
                       analytics.retorno.corpo[1].percentual_variacao_remuneracao,
                       10000 * (MediaDoAno(db, analytics.anos[2])
                                  - MediaDoAno(db, analytics.anos[1])),
                       MediaDoAno(db, analytics.anos[1]))

\* A comparison whose first year has pay rows that average 0 and whose
\* second year has a mean pay other than 0: the request failed.
C19_Witness ==
    /\ analytics.op = "comparativo"
    /\ DoAno(db.remuneracoes, analytics.anos[1]) # <<>>
    /\ MediaDoAno(db, analytics.anos[1]) = 0
    /\ MediaDoAno(db, analytics.anos[2]) # 0
    /\ analytics.retorno.status = 500

\* A comparison of two years with pay that answered a variation which is no
\* whole percent.
C19_Respondeu ==
    /\ analytics.op = "comparativo"
    /\ analytics.retorno.status = 200
    /\ MediaDoAno(db, analytics.anos[2]) # 0
    /\ analytics.retorno.corpo[1].percentual_variacao_remuneracao % 100 # 0

\* ------------------------------------------------------------------ C20
\* The absences of a year, and its active persons: those with a pay row of
\* the year.
AfastamentosDoAno(banco, ano) ==
    Cardinality({i \in 1..Len(banco.afastamentos) : banco.afastamentos[i].ano = ano})

AtivosDoAno(banco, ano) ==
    Cardinality({banco.remuneracoes[i].id_servidor :
                    i \in {j \in 1..Len(banco.remuneracoes) :
                              banco.remuneracoes[j].ano = ano}})

DoTipo(insights, tipo) ==
    Cardinality({i \in 1..Len(insights) : insights[i].tipo = tipo})

UltimoAno(a) == a.anos[Len(a.anos)]

\* C20: the absence analysis of a report returns the rate
\* total absences / active persons x 100 (to the hundredth it is rounded to)
\* for a year with an active person and the rate 0 for a year with none,
\* without failing; either way it appends exactly one absence insight, so
\* an instance holds as many of them as it has run reports.
C20_AbsenceRateGuarded ==
    analytics.op = "relatorio"
        => /\ IF AtivosDoAno(db, UltimoAno(analytics)) > 0
              THEN MaisProximo(analytics.retorno.analise_afastamentos.taxa_afastamento,
                               10000 * AfastamentosDoAno(db, UltimoAno(analytics)),
                               AtivosDoAno(db, UltimoAno(analytics)))
              ELSE analytics.retorno.analise_afastamentos.taxa_afastamento = 0
           /\ analytics.retorno.analise_afastamentos.total_afastamentos
                  = AfastamentosDoAno(db, UltimoAno(analytics))
           /\ DoTipo(analytics.insights, "afastamento") = Len(analytics.anos)
           /\ analytics.insights[Len(analytics.insights)]
                  = InsightSummary("afastamento", "Taxa de Afastamento",
                        IF AtivosDoAno(db, UltimoAno(analytics)) > 0
                        THEN Arredondar(1000 * AfastamentosDoAno(db, UltimoAno(analytics)),
                                        AtivosDoAno(db, UltimoAno(analytics)))
                        ELSE 0,
                        UltimoAno(analytics))

\* A report of a year that has absences and no active person.
C20_Witness ==
    /\ analytics.op = "relatorio"
    /\ AtivosDoAno(db, UltimoAno(analytics)) = 0
    /\ AfastamentosDoAno(db, UltimoAno(analytics)) > 0
    /\ analytics.retorno.analise_afastamentos.taxa_afastamento = 0

\* A report of a year with two active persons and one absence: 50 percent.
C20_Metade ==
    /\ analytics.op = "relatorio"
    /\ AtivosDoAno(db, UltimoAno(analytics)) = 2
    /\ AfastamentosDoAno(db, UltimoAno(analytics)) = 1
    /\ analytics.retorno.analise_afastamentos.taxa_afastamento = 5000

\* ------------------------------------------------------------------ C26
\* The four raw cells a catalog row and an assignment row share.
CelulasDoCargo(r) ==
    <<r.CLASSE_CARGO, r.PADRAO_CARGO, r.NIVEL_CARGO, r.DESCRICAO_CARGO>>

\* The catalog read holds an entry with the 4-tuple the catalog importer
\* cleans from this raw row.
GuardadoDe(c, todos_cargos) ==
    \E i \in 1..Len(todos_cargos) :
        TuplaDoCargo(todos_cargos[i]) = TuplaDoCargo(LimparCargo(c))

\* C26: both importers clean the same raw values to the same key: an
\* assignment row whose class, standard, level and description cells are
\* those of a raw catalog row the catalog importer has stored an entry from
\* finds an entry of the catalog read, and is not dropped.
C26_SameRawValuesSameKey ==
    \A p \in Procs :
        Procurou(imp[p])
            => \A i \in 1..Len(Validas(imp[p])) : \A c \in RawCargosFuncoes :
                   /\ CelulasDoCargo(c) = CelulasDoCargo(Validas(imp[p])[i])
                   /\ GuardadoDe(c, imp[p].todos_cargos)
                   => Casa(Validas(imp[p])[i], imp[p].todos_cargos)

\* ------------------------------------------------------------------ C27
\* A row without the id the store gives it.
SemId(e, r) == IF e = "cargofuncao" THEN TuplaDoCargo(r) ELSE r

\* Where the rows of chunk k of q begin in the table, if it was committed.
InicioDoLote(q, k) == Len(q.antes) + Confirmados(q, k - 1)

\* C27: in the role-catalog and role-assignment loaders a chunk is all or
\* nothing: when the import has returned, every chunk was tried, each
\* committed chunk stands whole and in order in the table, and the table has
\* no other new row, so a failed chunk left none of its rows and took none
\* of another chunk.
C27_ChunkAllOrNothing ==
    \A p \in Procs :
        imp[p].ent \in {"cargofuncao", "funcao_cargo"} /\ imp[p].pc = "returned"
            => /\ Len(imp[p].lotes) * chunk_size >= Len(imp[p].registros)
               /\ Len(db[imp[p].ent])
                     = Len(imp[p].antes) + Confirmados(imp[p], Len(imp[p].lotes))
               /\ \A k \in 1..Len(imp[p].lotes) :
                     imp[p].lotes[k] = "ok"
                        => \A j \in 1..Len(LoteK(imp[p], k)) :
                              SemId(imp[p].ent,
                                    db[imp[p].ent][InicioDoLote(imp[p], k) + j])
                                 = SemId(imp[p].ent, LoteK(imp[p], k)[j])

\* An import of three chunks returned with its second chunk failed and the
\* other two committed.
C27_Witness ==
    \E p \in Procs :
        /\ imp[p].ent \in {"cargofuncao", "funcao_cargo"}
        /\ imp[p].pc = "returned"
        /\ imp[p].lotes = <<"ok", "erro", "ok">>
        /\ Len(LoteK(imp[p], 2)) = chunk_size
        /\ Len(db[imp[p].ent]) = Len(imp[p].antes) + Len(imp[p].registros) - chunk_size

\* ------------------------------------------------------------------ C28
\* The list of the engine when its k-th report returned.
NoRetorno(a, banco, k) ==
    IF a.limpou /\ k = 2 THEN DasCorridas(banco, <<a.anos[2]>>)
    ELSE DasCorridas(banco, SubSeq(a.anos, 1, k))

\* C28: a report gerar_relatorio_completo has returned keeps the insights it
\* held on return: a later clear of the list, or a later report on the same
\* engine, changes them in no earlier report.
C28_ReturnedReportKeepsItsInsights ==
    analytics.op \in {"relatorio", "comparativo"}
        => \A k \in 1..Len(analytics.anos) :
               InsightsDoRelatorio(analytics, k) = NoRetorno(analytics, db, k)

\* ------------------------------------------------------------------ C30
\* C30: the chart names a report returns are an initial part of the five
\* names in their fixed order: all five when no chart fails, the i-1 names
\* before it when chart i fails; the failure is swallowed, and the report
\* is returned with its summary and its insights all the same.
C30_ChartNamesArePrefix ==
    analytics.op = "relatorio"
        => /\ Prefixo(analytics.retorno.graficos_gerados, NomesDosGraficos)
           /\ Len(analytics.retorno.graficos_gerados)
                 = (IF analytics.falha = 0 THEN 5 ELSE analytics.falha - 1)
           /\ analytics.retorno.resumo_geral
                 = resumo_geral(<<>>, db, UltimoAno(analytics)).retorno
           /\ ~analytics.limpou
                 => analytics.insights = DasCorridas(db, analytics.anos)

\* A report whose third chart failed: it returned with two chart names.
C30_Witness ==
    /\ analytics.op = "relatorio"
    /\ analytics.falha = 3
    /\ analytics.retorno.graficos_gerados
          = <<"evolucao_remuneracao_mensal.png", "remuneracao_por_cargo.png">>

\* ------------------------------------------------------------------ C25
Exportou == analytics.op = "estatisticas"

Pedido == analytics.retorno.pedido

Resp == analytics.retorno.resposta

\* C25: a statistics-export request whose grouping is none of cargo, orgao,
\* mes and servidor is answered with status 400, with no statistic computed
\* and no export file created.
C25_InvalidGroupingIs400 ==
    (Exportou /\ Pedido.agrupar_por \notin {"cargo", "orgao", "mes", "servidor"})
        => /\ Resp.status = 400
           /\ ~Resp.calculou
           /\ ~Resp.criado

\* ------------------------------------------------------------------ C29
\* The pay rows of the requested year with a positive net pay.
QualificadosDoPedido ==
    SelectSeq(db.remuneracoes,
              LAMBDA r : r.ano = Pedido.ano /\ r.remuneracao_final > 0)

AgrupamentoValido == Pedido.agrupar_por \in {"cargo", "orgao", "mes", "servidor"}

Titulos(arquivo) == [i \in 1..Len(arquivo) |-> arquivo[i].titulo]

\* C29: an export of a year with no qualifying pay record completes: the
\* bundle has neither the descriptive statistics nor the percentiles, and
\* the file has the remaining sections.
C29_ExportCompletesWithoutQualifyingPay ==
    (Exportou /\ AgrupamentoValido /\ QualificadosDoPedido = <<>>)
        => /\ Resp.status = 200
           /\ "estatisticas_descritivas" \notin DOMAIN Resp.dados
           /\ "quartis_percentis" \notin DOMAIN Resp.dados
           /\ Titulos(Resp.arquivo)[Len(Resp.arquivo)] = "OBSERVACOES E METODOLOGIA"

\* ------------------------------------------------------------------ C24
OrdemDasSecoes(incluir_detalhes) ==
    <<"RELATORIO ESTATISTICO", "RESUMO EXECUTIVO", "ESTATISTICAS DESCRITIVAS",
      "ANALISE POR", "ANALISE DE QUARTIS E PERCENTIS">>
      \o (IF incluir_detalhes THEN <<"DADOS DETALHADOS">> ELSE <<>>)
      \o <<"ANALISE DE CORRELACOES", "OBSERVACOES E METODOLOGIA">>

\* C24: the file of every export that answers 200 has exactly the sections
\* header, executive summary, descriptive statistics, grouped analysis,
\* percentiles, detailed rows (if and only if the detail flag is set),
\* correlations and methodology, in this order and each once; what an
\* export that fails has written is a prefix of them.
C24_SectionsInOrder ==
    Exportou
        => /\ Prefixo(Titulos(Resp.arquivo), OrdemDasSecoes(Pedido.incluir_detalhes))
           /\ Resp.status = 200
                  => Titulos(Resp.arquivo) = OrdemDasSecoes(Pedido.incluir_detalhes)

C24_Witness ==
    /\ Exportou
    /\ Resp.status = 200
    /\ ~Pedido.incluir_detalhes
    /\ Len(Resp.arquivo) = 7
    /\ Len(db.remuneracoes) > 0

\* ------------------------------------------------------------------ C21
Calculadas == "estatisticas_descritivas" \in DOMAIN Resp.dados

Descritas == Resp.dados["estatisticas_descritivas"]

\* C21: with fewer than 2 qualifying values the standard deviation, the
\* variance and the coefficient of variation of the descriptive statistics
\* are 0, with a mean of 0 the coefficient of variation is 0, and in neither
\* case does the computation of the statistics raise.
C21_DispersionZeroForShortSamples ==
    (Exportou /\ AgrupamentoValido)
        => /\ Len(QualificadosDoPedido) < 2
                  => /\ Resp.detail \notin {"StatisticsError", "ZeroDivisionError"}
                     /\ Len(QualificadosDoPedido) = 1
                            => /\ Resp.status = 200
                               /\ Calculadas
                     /\ Calculadas
                            => /\ Descritas.desvio_padrao = 0
                               /\ Descritas.variancia = 0
                               /\ Descritas.coeficiente_variacao = 0
           /\ (Calculadas /\ Descritas.media_remuneracao = 0)
                  => Descritas.coeficiente_variacao = 0

C21_Witness ==
    /\ Exportou
    /\ AgrupamentoValido
    /\ Len(QualificadosDoPedido) = 1
    /\ Resp.status = 200
    /\ Descritas.desvio_padrao = 0
    /\ Descritas.coeficiente_variacao = 0
    /\ Descritas.media_remuneracao > 0

\* ------------------------------------------------------------------ C22
\* The rows the correlation query returns for the requested year: the
\* distinct (id_servidor, mes, remuneracao_final) of its pay rows.
LinhasDaAmostra ==
    {<<db.remuneracoes[i].id_servidor, db.remuneracoes[i].mes,
       db.remuneracoes[i].remuneracao_final>> :
        i \in {j \in 1..Len(db.remuneracoes) : db.remuneracoes[j].ano = Pedido.ano}}

AfastamentosDaLinha(l) ==
    Cardinality({i \in 1..Len(db.remuneracoes) :
                    /\ db.remuneracoes[i].ano = Pedido.ano
                    /\ db.remuneracoes[i].id_servidor = l[1]
                    /\ db.remuneracoes[i].mes = l[2]
                    /\ db.remuneracoes[i].remuneracao_final = l[3]})
      * Cardinality({j \in 1..Len(db.afastamentos) :
                        /\ db.afastamentos[j].id_servidor = l[1]
                        /\ db.afastamentos[j].ano = Pedido.ano
                        /\ db.afastamentos[j].mes = l[2]})

SegundaVariavel(nome) ==
    IF nome = "Mes" THEN {l[2] : l \in LinhasDaAmostra}
    ELSE {AfastamentosDaLinha(l) : l \in LinhasDaAmostra}

Correlacoes == Resp.dados["correlacoes"]

\* C22: a pair is in the correlations only if the sample has at least the
\* minimum of rows (10 in the source, minimo_correlacao here) and the
\* second variable of the pair takes at least 2 distinct values; an error
\* inside the correlation step leaves the empty list and is not what the
\* request fails with.
C22_CorrelationPairsGuarded ==
    (Exportou /\ AgrupamentoValido)
        => /\ Resp.detail # "Exception"
           /\ Resp.calculou
           /\ Resp.dados # <<>>
                  => /\ \A i \in 1..Len(Correlacoes) :
                            /\ Cardinality(LinhasDaAmostra) >= minimo_correlacao
                            /\ Cardinality(SegundaVariavel(Correlacoes[i].variavel2)) >= 2
                     /\ analytics.retorno.erro => Correlacoes = <<>>
                     /\ Cardinality(LinhasDaAmostra) < minimo_correlacao
                            => Correlacoes = <<>>

C22_Witness ==
    /\ Exportou
    /\ Resp.status = 200
    /\ Cardinality(LinhasDaAmostra) = minimo_correlacao
    /\ Len(Correlacoes) = 2
    /\ Correlacoes[2].variavel2 = "Afastamentos"
    /\ Correlacoes[2].coeficiente < 0

\* ------------------------------------------------------------------ C23
IntensidadeDe(c) ==
    IF Abs(c) >= 9000 THEN "muito forte"
    ELSE IF Abs(c) >= 7000 THEN "forte"
    ELSE IF Abs(c) >= 5000 THEN "moderada"
    ELSE IF Abs(c) >= 3000 THEN "fraca"
    ELSE "muito fraca"

LinhasInterpretadas ==
    UNION {{Resp.arquivo[i].linhas[k] : k \in 1..Len(Resp.arquivo[i].linhas)} :
              i \in 1..Len(Resp.arquivo)}

\* C23: every coefficient written to the file (in ten-thousandths, between
\* -10000 and 10000) has the intensity of its absolute value (from 0.9 very
\* strong, from 0.7 strong, from 0.5 moderate, from 0.3 weak, below very
\* weak), is labelled positive exactly when it is greater than 0 and
\* negative exactly when it is less than 0.
C23_InterpretationBySizeAndSign ==
    Exportou
        => \A l \in LinhasInterpretadas :
              /\ l.coeficiente \in (0 - 10000)..10000
              /\ l.interpretacao.intensidade = IntensidadeDe(l.coeficiente)
              /\ l.interpretacao.direcao = "positiva" <=> l.coeficiente > 0
              /\ l.interpretacao.direcao = "negativa" <=> l.coeficiente < 0

====
